---- MODULE Spec2Model ----
(***************************************************************************)
(* A model of the channel registry of simargl: the record store            *)
(* (channel_registry/registry.py), the refresh service                     *)
(* (channel_registry/refresh_service.py), the local memory service         *)
(* (memory/local_memory_service.py) and the normalisation helpers          *)
(* (channel_registry/utils.py).                                            *)
(*                                                                         *)
(* A Python str is a sequence of characters.  A character is a one-letter  *)
(* string; a few longer atoms stand for fixed chunks of text that the      *)
(* string functions never split (the URL prefix, the "synthetic::" prefix, *)
(* the literal parts of the memory fact).  Python's None is the one-atom   *)
(* sequence None, which no real string equals.                             *)
(***************************************************************************)
EXTENDS Integers, Sequences, FiniteSets, TLC

\* ------------------------------------------------------------------ bounds
MaxObjs == 2
MaxTime == 3
MaxFetches == 2
MaxCalls == 1
MaxLen == 3
MaxRetries == 3
TtlHours == 2

\* ----------------------------------------------------------------- strings
None == <<"None">>
NoTime == -1
NoInt == -1

UrlPrefix == "https://www.youtube.com"
UrlPrefixUpper == "HTTPS://WWW.YOUTUBE.COM"
SyntheticPrefix == "synthetic::"

IsWhitespace(c) == c \in {" ", "\n"}

LowerChar(c) ==
  CASE c = "U" -> "u"
    [] c = "C" -> "c"
    [] c = "A" -> "a"
    [] c = "B" -> "b"
    [] c = "T" -> "t"
    [] c = "X" -> "x"
    [] c = UrlPrefixUpper -> UrlPrefix
    [] OTHER -> c

Lower(s) == [i \in 1..Len(s) |-> LowerChar(s[i])]

RECURSIVE LStripSet(_, _)
LStripSet(s, chars) ==
  IF s # <<>> /\ Head(s) \in chars THEN LStripSet(Tail(s), chars) ELSE s

RECURSIVE RStripSet(_, _)
RStripSet(s, chars) ==
  IF s # <<>> /\ s[Len(s)] \in chars
    THEN RStripSet(SubSeq(s, 1, Len(s) - 1), chars)
    ELSE s

StripSet(s, chars) == RStripSet(LStripSet(s, chars), chars)

Strip(s) == StripSet(s, {" ", "\n"})

StartsWith(s, p) == Len(s) >= Len(p) /\ SubSeq(s, 1, Len(p)) = p

StartsWithUC(s) == StartsWith(s, <<"U", "C">>)

Contains(s, c) == \E i \in 1..Len(s) : s[i] = c

FirstIndex(s, c) == CHOOSE i \in 1..Len(s) : s[i] = c /\ \A j \in 1..(i - 1) : s[j] # c

\* s.split(c, maxsplit=1)[1] for a string that contains c
AfterFirst(s, c) == SubSeq(s, FirstIndex(s, c) + 1, Len(s))

\* s.split(c): the segments between the occurrences of c
RECURSIVE Split(_, _)
Split(s, c) ==
  IF ~Contains(s, c) THEN <<s>>
  ELSE <<SubSeq(s, 1, FirstIndex(s, c) - 1)>> \o Split(AfterFirst(s, c), c)

\* Python truthiness of an Optional[str]
Truthy(v) == v # None /\ v # <<>>

\* urlparse(s).netloc is non-empty: the text starts with scheme://host
HasNetloc(s) == s # <<>> /\ Head(s) \in {UrlPrefix, UrlPrefixUpper}

\* urlparse(s).path
UrlPath(s) == IF HasNetloc(s) THEN Tail(s) ELSE s

\* ------------------------------------------------------------------- utils
\* A normalisation that removes the leading "@" before it trims the value.
NormalizeHandleTrimmingLast(value) ==
  IF value = None THEN None
  ELSE LET cleaned == Strip(LStripSet(value, {"@"}))
       IN IF cleaned = <<>> THEN None
          ELSE <<"@">> \o cleaned

\* A normalisation that puts "@" in front of the trimmed value as it is.
NormalizeHandlePrefixing(value) ==
  IF value = None THEN None
  ELSE LET cleaned == Strip(value)
       IN IF cleaned = <<>> THEN None
          ELSE <<"@">> \o cleaned

NormalizeHandle(value) ==
  IF value = None THEN None
  ELSE LET cleaned == Strip(value)
       IN IF cleaned = <<>> THEN None
          ELSE <<"@">> \o LStripSet(cleaned, {"@"})

RECURSIVE DedupeFrom(_, _, _)
DedupeFrom(aliases, seen, result) ==
  IF aliases = <<>> THEN result
  ELSE LET alias == Head(aliases)
           rest == Tail(aliases)
       IN IF ~Truthy(alias) THEN DedupeFrom(rest, seen, result)
          ELSE LET cleaned == Strip(alias)
                   key == Lower(cleaned)
               IN IF cleaned = <<>> \/ key \in seen
                    THEN DedupeFrom(rest, seen, result)
                    ELSE DedupeFrom(rest, seen \cup {key}, Append(result, cleaned))

\* A dedupe that keeps each surviving entry as it was passed, untrimmed.
RECURSIVE DedupeFromUntrimmed(_, _, _)
DedupeFromUntrimmed(aliases, seen, result) ==
  IF aliases = <<>> THEN result
  ELSE LET alias == Head(aliases)
           rest == Tail(aliases)
       IN IF ~Truthy(alias) THEN DedupeFromUntrimmed(rest, seen, result)
          ELSE LET cleaned == Strip(alias)
                   key == Lower(cleaned)
               IN IF cleaned = <<>> \/ key \in seen
                    THEN DedupeFromUntrimmed(rest, seen, result)
                    ELSE DedupeFromUntrimmed(rest, seen \cup {key}, Append(result, alias))

DedupeAliasesUntrimmed(aliases) == DedupeFromUntrimmed(aliases, {}, <<>>)

\* A dedupe whose comparison key keeps the letter case.
RECURSIVE DedupeFromExact(_, _, _)
DedupeFromExact(aliases, seen, result) ==
  IF aliases = <<>> THEN result
  ELSE LET alias == Head(aliases)
           rest == Tail(aliases)
       IN IF ~Truthy(alias) THEN DedupeFromExact(rest, seen, result)
          ELSE LET cleaned == Strip(alias)
               IN IF cleaned = <<>> \/ cleaned \in seen
                    THEN DedupeFromExact(rest, seen, result)
                    ELSE DedupeFromExact(rest, seen \cup {cleaned}, Append(result, cleaned))

DedupeAliasesExact(aliases) == DedupeFromExact(aliases, {}, <<>>)

DedupeAliases(aliases) == DedupeFrom(aliases, {}, <<>>)


\* ------------------------------------------------------------------ models
NoSnapshot == <<>>

\* ChannelRecord(channel_id=..., handle=..., custom_url=..., title=...) with
\* every other field at its default; created_at and updated_at are utcnow().
ChannelRecord(channel_id, handle, custom_url, title, t) ==
  [channel_id |-> channel_id,
   handle |-> handle,
   custom_url |-> custom_url,
   title |-> title,
   description |-> None,
   owner |-> None,
   notes |-> None,
   tags |-> <<>>,
   aliases |-> <<>>,
   file_search_store_name |-> None,
   subscriber_count |-> NoInt,
   video_count |-> NoInt,
   view_count |-> NoInt,
   latest_video_id |-> None,
   last_refreshed_at |-> NoTime,
   snapshot |-> NoSnapshot,
   uploads_playlist_id |-> None,
   created_at |-> t,
   updated_at |-> t]

RECURSIVE TokensOf(_)
TokensOf(values) ==
  IF values = <<>> THEN {}
  ELSE LET value == Head(values)
           stripped == Lower(Strip(value))
       IN (IF ~Truthy(value) \/ stripped = <<>> THEN {}
           ELSE {stripped, LStripSet(stripped, {"@"})})
          \cup TokensOf(Tail(values))

search_tokens(r) ==
  {Lower(r.channel_id)}
    \cup TokensOf(<<r.handle, r.custom_url, r.title, r.owner>> \o r.aliases)

\* ---------------------------------------------------------------- registry
\* The store self._records is a Python dict: an insertion-ordered map from a
\* key to a reference to a record object.  st is the sequence of its items
\* [k |-> key, o |-> object], hp maps the live objects to their fields.
NoObj == 0

Keys(st) == {st[i].k : i \in 1..Len(st)}

KeyIndex(st, k) == CHOOSE i \in 1..Len(st) : st[i].k = k

\* self._records.get(channel_id)
Get(st, k) == IF k \in Keys(st) THEN st[KeyIndex(st, k)].o ELSE NoObj

\* self._records[k] = o: a key already present keeps its position
DictSet(st, k, o) ==
  IF k \in Keys(st)
    THEN [st EXCEPT ![KeyIndex(st, k)] = [k |-> k, o |-> o]]
    ELSE Append(st, [k |-> k, o |-> o])

IsDigit(c) == c \in {"0", "1", "2", "3", "4", "5", "6", "7", "8", "9"}

DigitVal(c) ==
  CASE c = "0" -> 0 [] c = "1" -> 1 [] c = "2" -> 2 [] c = "3" -> 3 [] c = "4" -> 4
    [] c = "5" -> 5 [] c = "6" -> 6 [] c = "7" -> 7 [] c = "8" -> 8 [] c = "9" -> 9

RECURSIVE DigitsVal(_, _)
DigitsVal(s, acc) ==
  IF s = <<>> THEN acc ELSE DigitsVal(Tail(s), 10 * acc + DigitVal(Head(s)))

DigitChar(d) ==
  CASE d = 0 -> "0" [] d = 1 -> "1" [] d = 2 -> "2" [] d = 3 -> "3" [] d = 4 -> "4"
    [] d = 5 -> "5" [] d = 6 -> "6" [] d = 7 -> "7" [] d = 8 -> "8" [] d = 9 -> "9"

RECURSIVE Digits(_)
Digits(n) == IF n < 10 THEN <<DigitChar(n)>> ELSE Digits(n \div 10) \o <<DigitChar(n % 10)>>

\* A datetime in JSON mode is its ISO text, None is null.
IsoFormat(t) == IF t = NoTime THEN None ELSE Digits(t)

ParseDatetime(v) == IF v = None THEN NoTime ELSE DigitsVal(v, 0)

\* record.model_dump(mode="json")
model_dump(r) ==
  [r EXCEPT !.created_at = IsoFormat(@), !.updated_at = IsoFormat(@),
            !.last_refreshed_at = IsoFormat(@)]

\* ChannelRecord(**entry) for an entry that model_dump wrote
ChannelRecordFrom(entry) ==
  [entry EXCEPT !.created_at = ParseDatetime(@), !.updated_at = ParseDatetime(@),
                !.last_refreshed_at = ParseDatetime(@)]

\* [record.model_dump(mode="json") for record in self._records.values()]
Serialize(hp, st) == [i \in 1..Len(st) |-> model_dump(hp[st[i].o])]

\* _load on an existing file: a document that is not valid JSON reads as the
\* empty list; each entry becomes a new record under its channel_id.
\* ChannelRecord(**entry) validates: channel_id is a required str, so an
\* entry whose channel_id is null raises and _load skips it.
ValidEntry(entry) == entry.channel_id # None

RECURSIVE LoadEntries(_, _, _)
LoadEntries(entries, hp, st) ==
  IF entries = <<>> THEN [hp |-> hp, st |-> st]
  ELSE IF ~ValidEntry(Head(entries)) THEN LoadEntries(Tail(entries), hp, st)
  ELSE LET record == ChannelRecordFrom(Head(entries))
           o == Len(entries)
       IN LoadEntries(Tail(entries), (o :> record) @@ hp, DictSet(st, record.channel_id, o))

\* A file json.load cannot turn into a list for reasons other than a
\* JSONDecodeError: bytes that are not UTF-8 (read raises UnicodeDecodeError)
\* or a JSON document that is null, a number or a boolean ("for entry in
\* data" raises TypeError).
UnreadableDocument(why) == [entries |-> <<>>, closed |-> FALSE, unreadable |-> why]

\* _load raises: only json.JSONDecodeError is caught around json.load, and
\* nothing is caught around the iteration of data.
LoadRaises(dk) == "unreadable" \in DOMAIN dk

_load(dk) == LoadEntries(IF dk.closed THEN dk.entries ELSE <<>>, <<>>, <<>>)


\* An expansion that trims the identifier but keeps its letter case.
_expand_identifier_keeping_case(identifier) ==
  LET cleaned == Strip(identifier)
      path == StripSet(UrlPath(cleaned), {"/"})
  IN IF cleaned = <<>> THEN {}
     ELSE {cleaned}
          \cup (IF StartsWith(cleaned, <<"@">>) THEN {LStripSet(cleaned, {"@"})} ELSE {})
          \cup (IF HasNetloc(cleaned) /\ Contains(path, "@")
                  THEN {AfterFirst(path, "@")} ELSE {})
          \cup (IF HasNetloc(cleaned) /\ path # <<>> THEN {path} ELSE {})

_expand_identifier(identifier) ==
  LET cleaned == Lower(Strip(identifier))
      path == StripSet(UrlPath(cleaned), {"/"})
  IN IF cleaned = <<>> THEN {}
     ELSE {cleaned}
          \cup (IF StartsWith(cleaned, <<"@">>) THEN {LStripSet(cleaned, {"@"})} ELSE {})
          \cup (IF HasNetloc(cleaned) /\ Contains(path, "@")
                  THEN {AfterFirst(path, "@")} ELSE {})
          \cup (IF HasNetloc(cleaned) /\ path # <<>> THEN {path} ELSE {})

\* The object resolve(identifier) returns, NoObj for None.
resolve(hp, st, identifier) ==
  IF identifier = <<>> THEN NoObj
  ELSE LET tokens == _expand_identifier(identifier)
           direct == {t \in tokens : StartsWithUC(t) /\ t \in Keys(st)}
           hits == {i \in 1..Len(st) : search_tokens(hp[st[i].o]) \cap tokens # {}}
       IN IF direct # {} THEN Get(st, CHOOSE t \in direct : TRUE)
          ELSE IF hits # {}
            THEN st[CHOOSE i \in hits : \A j \in hits : i <= j].o
            ELSE NoObj

_deduce_channel_id(identifier) ==
  LET cleaned == Strip(identifier)
  IN IF StartsWithUC(cleaned) THEN cleaned
     ELSE <<SyntheticPrefix>> \o Lower(cleaned)

_extract_handle(identifier) ==
  LET text == Strip(identifier)
      path == UrlPath(text)
  IN IF Contains(text, UrlPrefix) /\ path # <<>> /\ Contains(path, "@")
       THEN NormalizeHandle(AfterFirst(path, "@"))
       ELSE IF StartsWith(text, <<"@">>) THEN NormalizeHandle(text)
       ELSE None

_extract_custom_slug(identifier) ==
  LET text == Strip(identifier)
      path == StripSet(UrlPath(text), {"/"})
      segments == Split(path, "/")
  IN IF ~Contains(text, UrlPrefix) THEN None
     ELSE IF path = <<>> THEN None
     ELSE IF Lower(segments[1]) \in {<<"c">>, <<"channel">>} /\ Len(segments) > 1
       THEN segments[2]
       ELSE segments[Len(segments)]

_merge_aliases(record, aliases, base_identifier) ==
  LET handle_alias == IF Truthy(record.handle) THEN NormalizeHandle(record.handle) ELSE None
  IN DedupeAliases(record.aliases \o aliases
                   \o <<base_identifier, handle_alias, record.channel_id, record.title>>)


\* --------------------------------------------------------- refresh service
\* A staleness check that leaves the TTL out of the comparison.
_is_stale_without_ttl(record, t) ==
  IF record.last_refreshed_at = NoTime THEN TRUE
  ELSE t >= record.last_refreshed_at

\* refreshed_at + timedelta(hours=self._ttl) <= utcnow(), None counting as stale
\* A staleness check for which the boundary instant is still fresh.
_is_stale_after_boundary(record, t) ==
  IF record.last_refreshed_at = NoTime THEN TRUE
  ELSE t > record.last_refreshed_at + TtlHours

_is_stale(record, t) ==
  IF record.last_refreshed_at = NoTime THEN TRUE
  ELSE t >= record.last_refreshed_at + TtlHours

\* Which request parameter _fetch_channel_payload can build for the record.
FetchParam(record) ==
  IF StartsWithUC(record.channel_id) THEN "id"
  ELSE IF Truthy(record.handle) THEN "forHandle"
  ELSE "none"

\* int(value), None on TypeError (value is None) or ValueError (not a number)
_safe_int(value) ==
  IF value = None THEN NoInt
  ELSE LET text == Strip(value)
       IN IF text # <<>> /\ \A i \in 1..Len(text) : IsDigit(text[i])
            THEN DigitsVal(text, 0)
            ELSE NoInt

Or(a, b) == IF Truthy(a) THEN a ELSE b

RECURSIVE KeepTruthy(_)
KeepTruthy(values) ==
  IF values = <<>> THEN <<>>
  ELSE (IF Truthy(Head(values)) THEN <<Head(values)>> ELSE <<>>) \o KeepTruthy(Tail(values))

\* An _apply_payload that stamps last_refreshed_at with the time the record
\* was created instead of the time of the fetch.
_apply_payload_stamping_created(record, payload, t) ==
  LET channel_id == Or(payload.id, record.channel_id)
      title == Or(payload.title, record.title)
      description == Or(payload.description, record.description)
      handle == NormalizeHandle(Or(payload.customUrl, record.handle))
  IN [record EXCEPT
        !.channel_id = channel_id,
        !.title = title,
        !.description = description,
        !.handle = handle,
        !.subscriber_count = _safe_int(payload.subscriberCount),
        !.video_count = _safe_int(payload.videoCount),
        !.view_count = _safe_int(payload.viewCount),
        !.last_refreshed_at = record.created_at,
        !.snapshot = <<payload.subscriberCount, payload.videoCount, payload.viewCount,
                       payload.publishedAt, payload.description, payload.title>>,
        !.aliases = DedupeAliases(record.aliases \o KeepTruthy(<<title, handle, channel_id>>)),
        !.updated_at = t]

\* The record after _apply_payload(record, payload) at time t.
_apply_payload(record, payload, t) ==
  LET channel_id == Or(payload.id, record.channel_id)
      title == Or(payload.title, record.title)
      description == Or(payload.description, record.description)
      handle == NormalizeHandle(Or(payload.customUrl, record.handle))
  IN [record EXCEPT
        !.channel_id = channel_id,
        !.title = title,
        !.description = description,
        !.handle = handle,
        !.subscriber_count = _safe_int(payload.subscriberCount),
        !.video_count = _safe_int(payload.videoCount),
        !.view_count = _safe_int(payload.viewCount),
        !.last_refreshed_at = t,
        !.snapshot = <<payload.subscriberCount, payload.videoCount, payload.viewCount,
                       payload.publishedAt, payload.description, payload.title>>,
        !.aliases = DedupeAliases(record.aliases \o KeepTruthy(<<title, handle, channel_id>>)),
        !.updated_at = t]

\* f"{n:,}" for n >= 0: decimal digits in groups of three from the right
RECURSIVE FormatInt(_)
FormatInt(n) ==
  IF n < 1000 THEN Digits(n)
  ELSE FormatInt(n \div 1000)
       \o <<",", DigitChar((n % 1000) \div 100), DigitChar((n % 100) \div 10), DigitChar(n % 10)>>

\* The text LocalMemoryService.remember appends for the item that
\* _write_memory_snapshot builds (item.source is None, so "agent").
MemoryFact(record) ==
  <<"[MEMORY_FACT from agent]: ", "Channel title: ">>
    \o (IF Truthy(record.title) THEN record.title ELSE <<"Unknown">>)
    \o (IF Truthy(record.handle) THEN <<" | ", "Handle: @">> \o record.handle ELSE <<>>)
    \o (IF record.subscriber_count # NoInt
          THEN <<" | ", "Subscribers: ">> \o FormatInt(record.subscriber_count) ELSE <<>>)
    \o (IF record.video_count # NoInt
          THEN <<" | ", "Videos: ">> \o FormatInt(record.video_count) ELSE <<>>)

\* f"{current_notes}\n{new_fact}".strip()
RememberNotes(record) ==
  Strip((IF record.notes = None THEN <<>> ELSE record.notes) \o <<"\n">> \o MemoryFact(record))


\* ------------------------------------------------------------------ state
VARIABLES
  heap,     \* the live ChannelRecord objects: object -> fields
  store,    \* ChannelRegistry._records, in insertion order
  disk,     \* the JSON document in the file at the store path
  now,      \* datetime.utcnow(), in hours
  fetches,  \* how many times channels().list(...).execute() has been called
  last,     \* the last call: its arguments, what it did and what it returned
  th,       \* per thread: the call it is in, its position and its local variables
  crashed   \* the process has been killed

vars == <<heap, store, disk, now, fetches, last, th, crashed>>

ObjIds == 1..MaxObjs

\* A complete JSON document holding the list of the serialized records.
Document(entries) == [entries |-> entries, closed |-> TRUE]

\* What _persist leaves at the store path.
Persisted(hp, st) == Document(Serialize(hp, st))

NewObj(hp) == CHOOSE o \in ObjIds \ DOMAIN hp : \A q \in ObjIds \ DOMAIN hp : o <= q

Objs(st) == {st[i].o : i \in 1..Len(st)}

\* Objects no reference reaches are collected.
Collect(hp, roots) == [o \in (DOMAIN hp) \cap roots |-> hp[o]]

\* registry.py lines 110-119: the shell record for an identifier that does
\* not resolve, built at time t.
ShellRecord(identifier, t) ==
  LET channel_id == _deduce_channel_id(identifier)
      handle == _extract_handle(identifier)
      shell == ChannelRecord(Or(channel_id, identifier), handle,
                             _extract_custom_slug(identifier), None, t)
  IN IF Strip(identifier) # <<>>
       THEN [shell EXCEPT !.aliases =
               _merge_aliases(shell, <<Strip(identifier), handle>>, None)]
       ELSE shell

\* find_or_create_by_identifier(identifier) at time t, from heap hp, store st
\* and file dk: the heap, store and file it leaves and the object it returns.
find_or_create_by_identifier(hp, st, dk, identifier, t) ==
  LET existing == resolve(hp, st, identifier)
      record == ShellRecord(identifier, t)
      o == NewObj(hp)
      hp1 == (o :> record) @@ hp
      st1 == DictSet(st, record.channel_id, o)
  IN IF existing # NoObj
       THEN [hp |-> hp, st |-> st, dk |-> dk, o |-> existing, created |-> FALSE]
       ELSE [hp |-> hp1, st |-> st1, dk |-> Persisted(hp1, st1), o |-> o, created |-> TRUE]

\* **changes of update_partial; a keyword that is absent and one that is None
\* read the same (changes.get), and has_aliases says aliases is not None.
Changes(owner, notes, has_aliases, aliases, base_identifier, title) ==
  [owner |-> owner, notes |-> notes, has_aliases |-> has_aliases, aliases |-> aliases,
   base_identifier |-> base_identifier, title |-> title]

\* Lines 69-85 of update_partial: the record after the changes, at time t.
Updated(changes) == changes.has_aliases \/ changes.owner # None \/ changes.notes # None

\* An update_partial without the allow-list: title is written like owner.
ApplyChangesAnyField(record, changes, t) ==
  LET r1 == IF changes.has_aliases
              THEN [record EXCEPT !.aliases =
                      _merge_aliases(record, changes.aliases, changes.base_identifier)]
              ELSE record
      r2 == IF changes.owner # None THEN [r1 EXCEPT !.owner = changes.owner] ELSE r1
      r3 == IF changes.notes # None THEN [r2 EXCEPT !.notes = changes.notes] ELSE r2
      r4 == IF changes.title # None THEN [r3 EXCEPT !.title = changes.title] ELSE r3
  IN IF Updated(changes) THEN [r4 EXCEPT !.updated_at = t] ELSE r4

\* An update_partial that skips every falsy value ("if not value: continue").
ApplyChangesTruthy(record, changes, t) ==
  LET r1 == IF changes.has_aliases
              THEN [record EXCEPT !.aliases =
                      _merge_aliases(record, changes.aliases, changes.base_identifier)]
              ELSE record
      r2 == IF Truthy(changes.owner) THEN [r1 EXCEPT !.owner = changes.owner] ELSE r1
      r3 == IF Truthy(changes.notes) THEN [r2 EXCEPT !.notes = changes.notes] ELSE r2
  IN IF Updated(changes) THEN [r3 EXCEPT !.updated_at = t] ELSE r3

ApplyChanges(record, changes, t) ==
  LET r1 == IF changes.has_aliases
              THEN [record EXCEPT !.aliases =
                      _merge_aliases(record, changes.aliases, changes.base_identifier)]
              ELSE record
      r2 == IF changes.owner # None THEN [r1 EXCEPT !.owner = changes.owner] ELSE r1
      r3 == IF changes.notes # None THEN [r2 EXCEPT !.notes = changes.notes] ELSE r2
  IN IF Updated(changes) THEN [r3 EXCEPT !.updated_at = t] ELSE r3

\* An update_partial that falls back to the first record of the store when
\* the channel_id is not a key.
update_partial_with_fallback(hp, st, dk, channel_id, changes, t) ==
  LET o == IF Get(st, channel_id) # NoObj \/ st = <<>> THEN Get(st, channel_id) ELSE st[1].o
      hp1 == [hp EXCEPT ![o] = ApplyChanges(hp[o], changes, t)]
  IN IF o = NoObj THEN [hp |-> hp, st |-> st, dk |-> dk, o |-> NoObj, updated |-> FALSE]
     ELSE IF Updated(changes)
       THEN [hp |-> hp1, st |-> st, dk |-> Persisted(hp1, st), o |-> o, updated |-> TRUE]
       ELSE [hp |-> hp, st |-> st, dk |-> dk, o |-> o, updated |-> FALSE]

\* update_partial(channel_id, **changes) at time t; o is NoObj when it returns None.
update_partial(hp, st, dk, channel_id, changes, t) ==
  LET o == Get(st, channel_id)
      hp1 == [hp EXCEPT ![o] = ApplyChanges(hp[o], changes, t)]
  IN IF o = NoObj THEN [hp |-> hp, st |-> st, dk |-> dk, o |-> NoObj, updated |-> FALSE]
     ELSE IF Updated(changes)
       THEN [hp |-> hp1, st |-> st, dk |-> Persisted(hp1, st), o |-> o, updated |-> TRUE]
       ELSE [hp |-> hp, st |-> st, dk |-> dk, o |-> o, updated |-> FALSE]

\* upsert(record) for the object o
upsert(hp, st, o) ==
  LET st1 == DictSet(st, hp[o].channel_id, o)
  IN [hp |-> hp, st |-> st1, dk |-> Persisted(hp, st1)]

\* LocalMemoryService.remember([item]) for the item of record o, which
\* _write_memory_snapshot builds: get(item.channel_id), then update_partial.
remember(hp, st, dk, o, t) ==
  LET channel_id == hp[o].channel_id
      found == Get(st, channel_id)
  IN IF found = NoObj THEN [hp |-> hp, st |-> st, dk |-> dk, o |-> NoObj, updated |-> FALSE]
     ELSE update_partial(hp, st, dk, channel_id,
                         Changes(None, RememberNotes(hp[found]), FALSE, <<>>, None, None), t)

\* What channels().list(**params).execute() can do: raise HttpError, raise
\* another exception (a timeout, a socket error), answer with no items, or
\* answer with a first item, which may be an empty object.  memory is what
\* the memory write after an applied item does: "ok", "raises" (remember
\* raises before it has done anything) or "fails" (the _persist inside its
\* update_partial raises, and remember returns False).
Outcome(kind, payload) == [kind |-> kind, payload |-> payload, memory |-> "ok"]

MemoryOutcome(payload, memory) == [Outcome("item", payload) EXCEPT !.memory = memory]

Payload(id, title, description, customUrl, subscriberCount, videoCount, viewCount, publishedAt) ==
  [id |-> id, title |-> title, description |-> description, customUrl |-> customUrl,
   subscriberCount |-> subscriberCount, videoCount |-> videoCount, viewCount |-> viewCount,
   publishedAt |-> publishedAt]

NoPayload == Payload(None, None, None, None, None, None, None, None)

\* A refresh whose memory write has no except clause: a failure of the write
\* leaves refresh by an exception, after the upsert.
RefreshFromUnguarded(f, force, out, t) ==
  LET record == f.hp[f.o]
      same == [hp |-> f.hp, st |-> f.st, dk |-> f.dk, ret |-> f.o, target |-> f.o,
               created |-> f.created, fetched |-> 0, writes |-> 0, raised |-> FALSE,
               kind |-> "fresh"]
      applied == [f.hp EXCEPT ![f.o] = _apply_payload(record, out.payload, t)]
      u == upsert(applied, f.st, f.o)
      m == remember(u.hp, u.st, u.dk, f.o, t)
  IN IF ~force /\ ~_is_stale(record, t) THEN same
     ELSE IF FetchParam(record) = "none" THEN [same EXCEPT !.kind = "no_param"]
     ELSE IF out.kind = "network_error"
       THEN [same EXCEPT !.kind = out.kind, !.fetched = 1, !.raised = TRUE, !.ret = NoObj]
     ELSE IF out.kind \in {"http_error", "no_items", "empty_item"}
       THEN [same EXCEPT !.kind = out.kind, !.fetched = 1]
     ELSE IF out.memory \in {"raises", "fails"}
       THEN [same EXCEPT !.hp = u.hp, !.st = u.st, !.dk = u.dk, !.kind = "applied",
                         !.fetched = 1, !.writes = 1, !.raised = TRUE, !.ret = NoObj]
     ELSE [same EXCEPT !.hp = m.hp, !.st = m.st, !.dk = m.dk, !.kind = "applied",
                       !.fetched = 1, !.writes = IF m.updated THEN 2 ELSE 1]

\* refresh(identifier, force) at time t from where its first line, the
\* resolve-or-create step f, leaves it, the request answering with out.
RefreshFrom(f, force, out, t) ==
  LET record == f.hp[f.o]
      same == [hp |-> f.hp, st |-> f.st, dk |-> f.dk, ret |-> f.o, target |-> f.o,
               created |-> f.created, fetched |-> 0, writes |-> 0, raised |-> FALSE,
               kind |-> "fresh"]
      applied == [f.hp EXCEPT ![f.o] = _apply_payload(record, out.payload, t)]
      u == upsert(applied, f.st, f.o)
      m == remember(u.hp, u.st, u.dk, f.o, t)
  IN IF ~force /\ ~_is_stale(record, t) THEN same
     ELSE IF FetchParam(record) = "none" THEN [same EXCEPT !.kind = "no_param"]
     ELSE IF out.kind = "network_error"
       THEN [same EXCEPT !.kind = out.kind, !.fetched = 1, !.raised = TRUE, !.ret = NoObj]
     ELSE IF out.kind \in {"http_error", "no_items", "empty_item"}
       THEN [same EXCEPT !.kind = out.kind, !.fetched = 1]
     ELSE IF out.memory = "raises"
       THEN [same EXCEPT !.hp = u.hp, !.st = u.st, !.dk = u.dk, !.kind = "applied",
                         !.fetched = 1, !.writes = 1]
     ELSE IF out.memory = "fails"
       THEN [same EXCEPT !.hp = m.hp, !.st = u.st, !.dk = u.dk, !.kind = "applied",
                         !.fetched = 1, !.writes = 1]
     ELSE [same EXCEPT !.hp = m.hp, !.st = m.st, !.dk = m.dk, !.kind = "applied",
                       !.fetched = 1, !.writes = IF m.updated THEN 2 ELSE 1]

refresh(hp, st, dk, identifier, force, out, t) ==
  RefreshFrom(find_or_create_by_identifier(hp, st, dk, identifier, t), force, out, t)

\* ----------------------------------------------------------------- manager
\* manager.py lines 17-18
_normalize_aliases(candidate_aliases) == DedupeAliases(candidate_aliases)

\* manager.py lines 47-54: the **changes add_channel and update_manual_fields
\* pass to update_partial
ManualChanges(owner, notes, aliases, base_identifier) ==
  Changes(owner, notes, TRUE, _normalize_aliases(aliases), base_identifier, None)

\* An update of the manual fields that creates the record it does not find.
update_manual_fields_or_create(hp, st, dk, identifier, owner, notes, aliases, t) ==
  LET f == find_or_create_by_identifier(hp, st, dk, identifier, t)
      u == update_partial(f.hp, f.st, f.dk, f.hp[f.o].channel_id,
                          ManualChanges(owner, notes, aliases, identifier), t)
  IN [hp |-> u.hp, st |-> u.st, dk |-> u.dk, o |-> u.o, updated |-> u.updated,
      found |-> f.o]

\* update_manual_fields(identifier, owner, notes, aliases) at time t; o is
\* NoObj when it returns None, found the record that resolve returned.
update_manual_fields(hp, st, dk, identifier, owner, notes, aliases, t) ==
  LET found == resolve(hp, st, identifier)
      u == update_partial(hp, st, dk, hp[found].channel_id,
                          ManualChanges(owner, notes, aliases, identifier), t)
  IN IF found = NoObj
       THEN [hp |-> hp, st |-> st, dk |-> dk, o |-> NoObj, updated |-> FALSE, found |-> NoObj]
       ELSE [hp |-> u.hp, st |-> u.st, dk |-> u.dk, o |-> u.o, updated |-> u.updated,
             found |-> found]

\* ---------------------------------------------------------- youtube client
\* client.py lines 127-131: UCxxxx -> UUxxxx
_derive_uploads_playlist_id(channel_id) ==
  IF ~Truthy(channel_id) \/ ~StartsWithUC(channel_id) \/ Len(channel_id) < 3 THEN None
  ELSE <<"U", "U">> \o SubSeq(channel_id, 3, Len(channel_id))

\* resolve_uploads_playlist_id(channel_id) at time t.  answer is the uploads
\* playlist the contentDetails request came back with, None when the request
\* failed or answered without one.  ret is the value returned, o the record
\* the call worked on, stored whether it wrote the record.
registry_lookup(hp, st, channel_id) ==
  IF resolve(hp, st, channel_id) # NoObj THEN resolve(hp, st, channel_id)
  ELSE Get(st, channel_id)

\* found is registry.resolve(channel_id) or registry.get(channel_id), and f
\* is what `record or registry.find_or_create_by_identifier(channel_id)`
\* leaves when line 193 is reached.
resolve_uploads_playlist_id(hp, st, dk, found, f, channel_id, answer) ==
  LET playlist_id == Or(answer, _derive_uploads_playlist_id(channel_id))
      none == [hp |-> hp, st |-> st, dk |-> dk, o |-> found, ret |-> None,
               fetched |-> 0, stored |-> FALSE, created |-> FALSE]
  IN IF ~Truthy(channel_id) \/ ~StartsWithUC(channel_id) THEN [none EXCEPT !.o = NoObj]
     ELSE IF found # NoObj /\ Truthy(hp[found].uploads_playlist_id)
       THEN [none EXCEPT !.ret = hp[found].uploads_playlist_id]
     ELSE IF ~Truthy(playlist_id) THEN [none EXCEPT !.fetched = 1]
     ELSE IF f.hp[f.o].uploads_playlist_id = playlist_id
       THEN [hp |-> f.hp, st |-> f.st, dk |-> f.dk, o |-> f.o, ret |-> playlist_id,
             fetched |-> 1, stored |-> FALSE, created |-> f.created]
     ELSE [o |-> f.o, ret |-> playlist_id, fetched |-> 1, stored |-> TRUE,
           created |-> f.created]
            @@ upsert([f.hp EXCEPT ![f.o].uploads_playlist_id = playlist_id], f.st, f.o)

\* ---------------------------------------------------------------- inputs
UCx == <<"U", "C", "x">>
HandleA == <<"@", "a">>
NameB == <<"b">>
Empty == <<>>

Identifiers == {HandleA, NameB, UCx, Empty}

PFull == Payload(UCx, <<"T">>, <<"D">>, HandleA, <<"5">>, <<"x">>, None, <<"p">>)

Outcomes ==
  {Outcome(k, NoPayload) : k \in {"http_error", "network_error", "no_items", "empty_item"}}
    \cup {Outcome("item", PFull), Outcome("item", NoPayload)}

\* An applied item whose memory write raises or reports failure.
MemoryFailures == {MemoryOutcome(PFull, m) : m \in {"raises", "fails"}}

ChangeSets ==
  {Changes(<<"O">>, None, FALSE, <<>>, None, None),
   Changes(None, <<"N">>, FALSE, <<>>, None, None),
   Changes(None, None, TRUE, <<UCx>>, None, None),
   Changes(None, None, FALSE, <<>>, None, None),
   Changes(<<"X">>, None, FALSE, <<>>, None, <<"N", "e", "w">>)}

UnknownId == <<"U", "C", "z">>

\* " B ": a free-text identifier in upper case with whitespace around it
NameBPadded == <<" ", "B", " ">>

\* " @A": the handle in upper case after whitespace
HandleAPadded == <<" ", "@", "A">>

\* The URL of the handle, in upper case and with a trailing newline
UrlAUpper == <<UrlPrefixUpper, "/", "@", "A", "\n">>

\* Aliases a caller passes: case variants of one name, an empty entry, a
\* whitespace-only entry, None, and the handle in upper case.
AliasBatch == << <<"A">>, <<"a", " ">>, <<>>, <<" ">>, None, <<"@", "A">> >>

\* The URL of the handle as a browser shows it
UrlA == <<UrlPrefix, "/", "@", "a">>

\* "A ": the handle without its "@", in upper case, before a space
BareAPadded == <<"A", " ">>

\* update_partial(aliases=[], base_identifier=<the URL of the handle>)
UrlAliasChange == Changes(None, None, TRUE, <<>>, UrlA, None)

\* What the contentDetails request can give: the uploads playlist of the
\* channel, or nothing (an error, no items, no relatedPlaylists)
PlaylistAnswers == {<<"U", "U", "x">>, <<"U", "U", "p">>, None}

\* Store files found at the path: a valid one, one with an entry whose
\* channel_id is null next to a valid entry and alone, a truncated one, the
\* empty list, a file of bytes that are not UTF-8 and the JSON document null.
StoredA == model_dump(ChannelRecord(UCx, HandleA, None, <<"T">>, 0))

BadEntry == [StoredA EXCEPT !.channel_id = None]

Files ==
  {Document(<<StoredA>>), Document(<<StoredA, BadEntry>>), Document(<<BadEntry>>),
   [Document(<<StoredA>>) EXCEPT !.closed = FALSE], Document(<<>>),
   UnreadableDocument("bytes"), UnreadableDocument("null")}

\* Identifiers that carry a handle with more than one "@", with whitespace,
\* inside a URL, or nothing after the "@"
DoubleAtA == <<"@", "@", "a">>

UrlDoubleAtA == <<UrlPrefix, "/", "@", "@", "a">>

HandleSpellings == {UrlDoubleAtA, <<"@">>}

\* snippet.customUrl as the API may give it
CustomUrls == {<<"@", "@", "x">>, <<" ">>, None}

HandlePayloads ==
  {Payload(None, <<"T">>, None, c, None, None, None, None) : c \in CustomUrls}

\* Every text of at most n characters of the alphabet
RECURSIVE StringsUpTo(_, _)
StringsUpTo(alphabet, n) ==
  IF n = 0 THEN {<<>>}
  ELSE LET shorter == StringsUpTo(alphabet, n - 1)
       IN shorter \cup {Append(t, c) : t \in shorter, c \in alphabet}

\* Values passed to normalize_handle: None, and every text of "@", space and
\* a letter up to MaxLen characters
HandleInputs == {None} \cup StringsUpTo({"@", " ", "a"}, MaxLen)

\* Entries of a list passed to dedupe_aliases: None, empty, whitespace, one
\* name in three spellings, and another name
AliasEntries == {None, <<>>, <<" ">>, <<"A">>, <<"a">>, <<" ", "A", " ">>, <<"b">>}

AliasLists == StringsUpTo(AliasEntries, MaxLen)

\* The owner's name as an identifier, and a change of owner to another name
OwnerName == <<"O">>

OwnerRename == Changes(<<"X">>, None, FALSE, <<>>, None, None)

\* An item whose custom URL gives the channel another handle
PRenamed == Payload(None, <<"T">>, None, <<"@", "x">>, None, None, None, None)

\* owner="" or notes="": the field explicitly blank
BlankOwner == Changes(<<>>, None, FALSE, <<>>, None, None)

BlankNotes == Changes(None, <<>>, FALSE, <<>>, None, None)

\* ----------------------------------------------------------- the program
\* last describes the latest call: mid is the target record as the
\* resolve-or-create step of the call left it, answer and payload what the
\* request of a refresh came back with, prev_kind and prev_target the call
\* that went before it at the same clock reading, changes the **changes of
\* an update_partial (or what the manager builds them from), memory what the
\* memory write of a refresh did.
NoCall ==
  [op |-> "none", x |-> <<>>, force |-> FALSE, kind |-> "none", fetched |-> 0,
   writes |-> 0, raised |-> FALSE, ret |-> NoObj, target |-> NoObj, existed |-> FALSE,
   mid |-> <<>>, at |-> 0, answer |-> "none", payload |-> NoPayload,
   prev_kind |-> "none", prev_target |-> NoObj,
   changes |-> Changes(None, None, FALSE, <<>>, None, None), memory |-> "none"]

Threads == {1, 2}

NoDocument == [entries |-> <<>>, closed |-> FALSE]

\* A thread that is in no call.  o is the record the call works on, snap the
\* local serializable of _persist, tmp the temporary file it writes, old the
\* store file as _persist found it, k where the call goes on after _persist.
Idle ==
  [pc |-> "idle", op |-> "none", x |-> <<>>, changes |-> Changes(None, None, FALSE, <<>>, None, None),
   force |-> FALSE, o |-> NoObj, payload |-> NoPayload, snap |-> <<>>, tmp |-> NoDocument,
   old |-> NoDocument, k |-> "idle", ret |-> NoObj, raised |-> FALSE, fetched |-> 0,
   created |-> FALSE, calls |-> 0]

\* ChannelRegistry(path) on a path with no file: _load persists the empty store.
Init ==
  /\ heap = <<>>
  /\ store = <<>>
  /\ disk = Persisted(<<>>, <<>>)
  /\ now = 0
  /\ fetches = 0
  /\ last = NoCall
  /\ th = [t \in Threads |-> Idle]
  /\ crashed = FALSE

\* Time passes between two calls.
Tick ==
  /\ now < MaxTime
  /\ now' = now + 1
  /\ last' = NoCall
  /\ UNCHANGED <<heap, store, disk, fetches, th, crashed>>

\* A new object is needed only by a call that creates a record.
CanCreate == DOMAIN heap # ObjIds

FindOrCreate(x) ==
  /\ resolve(heap, store, x) = NoObj => CanCreate
  /\ \E f \in {find_or_create_by_identifier(heap, store, disk, x, now)} :
        /\ heap' = Collect(f.hp, Objs(f.st))
        /\ store' = f.st
        /\ disk' = f.dk
        /\ last' = [NoCall EXCEPT !.op = "find_or_create", !.x = x, !.ret = f.o,
                      !.target = f.o, !.existed = ~f.created, !.mid = <<f.hp[f.o]>>,
                      !.writes = IF f.created THEN 1 ELSE 0, !.at = now]
  /\ UNCHANGED <<now, fetches, th, crashed>>

UpdatePartial(channel_id, changes) ==
  \E u \in {update_partial(heap, store, disk, channel_id, changes, now)} :
     /\ heap' = u.hp
     /\ store' = u.st
     /\ disk' = u.dk
     /\ last' = [NoCall EXCEPT !.op = "update_partial", !.x = channel_id, !.ret = u.o,
                   !.target = u.o, !.existed = u.o # NoObj,
                   !.mid = IF u.o # NoObj THEN <<heap[u.o]>> ELSE <<>>,
                   !.writes = IF u.updated THEN 1 ELSE 0, !.at = now,
                   !.changes = changes]
     /\ UNCHANGED <<now, fetches, th, crashed>>

\* resolve(identifier): a lookup, which changes nothing
Resolve(identifier) ==
  /\ last' = [NoCall EXCEPT !.op = "resolve", !.x = identifier,
                !.ret = resolve(heap, store, identifier),
                !.target = resolve(heap, store, identifier), !.at = now]
  /\ UNCHANGED <<heap, store, disk, now, fetches, th, crashed>>

\* upsert of a record the caller has just constructed
UpsertNew(channel_id, handle, title) ==
  /\ CanCreate
  /\ \E o \in {NewObj(heap)} :
     \E u \in {upsert((o :> ChannelRecord(channel_id, handle, None, title, now)) @@ heap,
                      store, o)} :
        /\ heap' = Collect(u.hp, Objs(u.st))
        /\ store' = u.st
        /\ disk' = u.dk
        /\ last' = [NoCall EXCEPT !.op = "upsert", !.x = channel_id, !.ret = o,
                      !.target = o, !.mid = <<u.hp[o]>>, !.writes = 1, !.at = now]
  /\ UNCHANGED <<now, fetches, th, crashed>>

\* Whether refresh gets as far as calling the API after its first line f.
Fetches(f, force) ==
  (force \/ _is_stale(f.hp[f.o], now)) /\ FetchParam(f.hp[f.o]) # "none"

RefreshWith(f, x, force, out) ==
  \E r \in {RefreshFrom(f, force, out, now)} :
     /\ fetches + r.fetched <= MaxFetches
     \* channels().list(id=c) answers with the channel c
     /\ (out.kind = "item" /\ FetchParam(f.hp[f.o]) = "id")
          => out.payload.id \in {None, f.hp[f.o].channel_id}
     /\ heap' = Collect(r.hp, Objs(r.st))
     /\ store' = r.st
     /\ disk' = r.dk
     /\ fetches' = fetches + r.fetched
     /\ last' = [NoCall EXCEPT !.op = "refresh", !.x = x, !.force = force,
                   !.kind = r.kind, !.fetched = r.fetched, !.writes = r.writes,
                   !.raised = r.raised, !.ret = r.ret, !.target = r.target,
                   !.existed = ~r.created, !.mid = <<f.hp[f.o]>>, !.at = now,
                   !.answer = out.kind, !.payload = out.payload,
                   !.memory = IF r.kind = "applied" THEN out.memory ELSE "none",
                   !.prev_kind = last.kind, !.prev_target = last.target]
     /\ UNCHANGED <<now, th, crashed>>

Refresh(x, force) ==
  /\ resolve(heap, store, x) = NoObj => CanCreate
  /\ \E f \in {find_or_create_by_identifier(heap, store, disk, x, now)} :
       IF Fetches(f, force)
         THEN \E out \in Outcomes : RefreshWith(f, x, force, out)
         ELSE RefreshWith(f, x, force, Outcome("none", NoPayload))

\* refresh(x, force=True) whose request answers with an item of payload
RefreshAnswering(x, payload) ==
  /\ resolve(heap, store, x) = NoObj => CanCreate
  /\ \E f \in {find_or_create_by_identifier(heap, store, disk, x, now)} :
       /\ Fetches(f, TRUE)
       /\ RefreshWith(f, x, TRUE, Outcome("item", payload))

\* A refresh whose request answers with the channel and whose memory write
\* does not succeed.
RefreshMemoryFailing(x, force) ==
  /\ resolve(heap, store, x) = NoObj => CanCreate
  /\ \E f \in {find_or_create_by_identifier(heap, store, disk, x, now)} :
       /\ Fetches(f, force)
       /\ \E out \in MemoryFailures : RefreshWith(f, x, force, out)

\* add_channel: resolve or create the record of the trimmed identifier
\* (line 46), update_partial on its channel_id (lines 47-54), then refresh by
\* record.channel_id or normalized_id with force=True (line 55).
\* last.mid is the record as update_partial left it.
AddChannel(identifier, owner, notes, aliases) ==
  /\ resolve(heap, store, Strip(identifier)) = NoObj => CanCreate
  /\ \E c \in {find_or_create_by_identifier(heap, store, disk, Strip(identifier), now)} :
     \E u \in {update_partial(c.hp, c.st, c.dk, c.hp[c.o].channel_id,
                               ManualChanges(owner, notes, aliases, Strip(identifier)), now)} :
     \E f \in {find_or_create_by_identifier(u.hp, u.st, u.dk,
                   Or(u.hp[c.o].channel_id, Strip(identifier)), now)} :
     \E out \in Outcomes :
     \E r \in {RefreshFrom(f, TRUE, out, now)} :
        /\ fetches + r.fetched <= MaxFetches
        /\ (out.kind = "item" /\ FetchParam(f.hp[f.o]) = "id")
             => out.payload.id \in {None, f.hp[f.o].channel_id}
        /\ heap' = Collect(r.hp, Objs(r.st))
        /\ store' = r.st
        /\ disk' = r.dk
        /\ fetches' = fetches + r.fetched
        /\ last' = [NoCall EXCEPT !.op = "add_channel", !.x = identifier, !.force = TRUE,
                      !.kind = r.kind, !.fetched = r.fetched, !.raised = r.raised,
                      !.ret = r.ret, !.target = r.target, !.existed = ~c.created,
                      !.mid = <<u.hp[c.o]>>, !.at = now,
                      !.answer = IF r.fetched = 1 THEN out.kind ELSE "none",
                      !.payload = out.payload,
                      !.memory = IF r.kind = "applied" THEN out.memory ELSE "none",
                      !.changes = Changes(owner, notes, TRUE, aliases, Strip(identifier), None)]
  /\ UNCHANGED <<now, th, crashed>>

UpdateManualFields(identifier, owner, notes, aliases) ==
  \E u \in {update_manual_fields(heap, store, disk, identifier, owner, notes, aliases, now)} :
     /\ heap' = u.hp
     /\ store' = u.st
     /\ disk' = u.dk
     /\ last' = [NoCall EXCEPT !.op = "update_manual_fields", !.x = identifier,
                   !.ret = u.o, !.target = u.found, !.existed = u.found \in DOMAIN heap,
                   !.mid = IF u.found \in DOMAIN heap THEN <<heap[u.found]>> ELSE <<>>,
                   !.writes = IF u.updated THEN 1 ELSE 0, !.at = now,
                   !.changes = Changes(owner, notes, TRUE, aliases, identifier, None)]
     /\ UNCHANGED <<now, fetches, th, crashed>>

\* resolve_uploads_playlist_id(channel_id), the request answering with answer
ResolveUploadsPlaylistId(channel_id, answer) ==
  /\ (resolve(heap, store, channel_id) = NoObj /\ Get(store, channel_id) = NoObj) => CanCreate
  /\ \E found \in {registry_lookup(heap, store, channel_id)} :
     \E f \in {IF found # NoObj
                 THEN [hp |-> heap, st |-> store, dk |-> disk, o |-> found,
                       created |-> FALSE]
                 ELSE find_or_create_by_identifier(heap, store, disk, channel_id, now)} :
     \E p \in {resolve_uploads_playlist_id(heap, store, disk, found, f, channel_id,
                                             answer)} :
        /\ fetches + p.fetched <= MaxFetches
        /\ heap' = Collect(p.hp, Objs(p.st))
        /\ store' = p.st
        /\ disk' = p.dk
        /\ fetches' = fetches + p.fetched
        /\ last' = [NoCall EXCEPT !.op = "resolve_uploads_playlist_id", !.x = channel_id,
                      !.ret = p.o, !.target = p.o, !.existed = ~p.created,
                      !.mid = IF p.o \in DOMAIN heap THEN <<heap[p.o]>> ELSE <<>>,
                      !.fetched = p.fetched, !.writes = IF p.stored THEN 1 ELSE 0,
                      !.kind = IF p.stored THEN "stored" ELSE "kept", !.at = now]
  /\ UNCHANGED <<now, th, crashed>>

\* ChannelRegistry(path) on a path where a file exists
Construct ==
  /\ last.op = "none"
  /\ IF LoadRaises(disk)
       THEN /\ UNCHANGED <<heap, store>>
            /\ last' = [NoCall EXCEPT !.op = "__init__", !.raised = TRUE, !.kind = "raised"]
       ELSE /\ heap' = _load(disk).hp
            /\ store' = _load(disk).st
            /\ last' = [NoCall EXCEPT !.op = "__init__",
                          !.kind = IF disk.closed THEN "loaded" ELSE "empty"]
  /\ UNCHANGED <<disk, now, fetches, th, crashed>>

\* The constructor has returned a registry.
Constructed == last.op # "none" /\ ~(last.op = "__init__" /\ last.raised)

\* normalize_handle(value): last.mid holds the result
NormalizeHandleOnce ==
  /\ last.op = "value"
  /\ last' = [last EXCEPT !.op = "normalize_handle", !.mid = <<NormalizeHandle(last.x)>>]
  /\ UNCHANGED <<heap, store, disk, now, fetches, th, crashed>>

\* normalize_handle applied to its own result: last.mid holds both results
NormalizeHandleAgain ==
  /\ last.op = "normalize_handle"
  /\ last' = [last EXCEPT !.op = "normalize_handle twice",
                          !.mid = Append(last.mid, NormalizeHandle(last.mid[1]))]
  /\ UNCHANGED <<heap, store, disk, now, fetches, th, crashed>>

\* dedupe_aliases(aliases): last.mid holds the result
DedupeAliasesOnce ==
  /\ last.op = "aliases"
  /\ last' = [last EXCEPT !.op = "dedupe_aliases", !.mid = <<DedupeAliases(last.x)>>]
  /\ UNCHANGED <<heap, store, disk, now, fetches, th, crashed>>

\* dedupe_aliases applied to its own result: last.mid holds both results
DedupeAliasesAgain ==
  /\ last.op = "dedupe_aliases"
  /\ last' = [last EXCEPT !.op = "dedupe_aliases twice",
                          !.mid = Append(last.mid, DedupeAliases(last.mid[1]))]
  /\ UNCHANGED <<heap, store, disk, now, fetches, th, crashed>>

\* ------------------------------------------------- the calls, step by step
\* The same calls one statement at a time, for callers on several threads and
\* for a process that is killed part-way.  Each step is a line, or a run of
\* lines that touch only the thread's own variables, of the method.
Roots == Objs(store) \cup {th[t].o : t \in Threads} \cup {th[t].ret : t \in Threads}

Begin(t, op, x, changes, force, pc) ==
  /\ ~crashed
  /\ th[t].pc = "idle"
  /\ th[t].calls < MaxCalls
  /\ th' = [th EXCEPT ![t] = [Idle EXCEPT !.pc = pc, !.op = op, !.x = x,
                                !.changes = changes, !.force = force,
                                !.calls = th[t].calls]]
  /\ UNCHANGED <<heap, store, disk, now, fetches, last, crashed>>

BeginFindOrCreate(t, x) == Begin(t, "find_or_create", x, Idle.changes, FALSE, "foc_resolve")

BeginUpdatePartial(t, channel_id, changes) ==
  Begin(t, "update_partial", channel_id, changes, FALSE, "upd_get")

BeginRefresh(t, x, force) == Begin(t, "refresh", x, Idle.changes, force, "rf_resolve")

At(t, pc) == ~crashed /\ th[t].pc = pc

\* Where a call goes on once find_or_create_by_identifier has its record.
AfterFindOrCreate(t) == IF th[t].op = "refresh" THEN "rf_stale" ELSE "return"

\* registry.py line 107-109: existing = self.resolve(identifier)
FocResolve(t) ==
  /\ At(t, "foc_resolve")
  /\ \E e \in {resolve(heap, store, th[t].x)} :
       th' = [th EXCEPT ![t].o = e, ![t].ret = e,
                        ![t].pc = IF e # NoObj THEN AfterFindOrCreate(t) ELSE "foc_insert"]
  /\ UNCHANGED <<heap, store, disk, now, fetches, last, crashed>>

\* registry.py lines 110-120: build the shell record, self._records[id] = record
FocInsert(t) ==
  /\ At(t, "foc_insert")
  /\ CanCreate
  /\ \E record \in {ShellRecord(th[t].x, now)}, o \in {NewObj(heap)} :
        /\ heap' = (o :> record) @@ heap
        /\ store' = DictSet(store, record.channel_id, o)
        /\ th' = [th EXCEPT ![t].o = o, ![t].ret = o, ![t].created = TRUE,
                            ![t].pc = "p_dump", ![t].k = AfterFindOrCreate(t)]
  /\ UNCHANGED <<disk, now, fetches, last, crashed>>

\* registry.py line 47: serializable = [record.model_dump(...) for record in ...]
PersistDump(t) ==
  /\ At(t, "p_dump")
  /\ th' = [th EXCEPT ![t].snap = Serialize(heap, store), ![t].tmp = NoDocument,
                      ![t].old = disk, ![t].pc = "p_write"]
  /\ UNCHANGED <<heap, store, disk, now, fetches, last, crashed>>

\* A _persist that opens the store path itself for writing: every piece
\* lands in the store file as it is written.
PersistWriteInPlace(t) ==
  /\ At(t, "p_write")
  /\ \E n \in {Len(th[t].tmp.entries)} :
     \E w \in {IF n < Len(th[t].snap)
                 THEN [th[t].tmp EXCEPT !.entries = Append(@, th[t].snap[n + 1])]
                 ELSE [th[t].tmp EXCEPT !.closed = TRUE]} :
        /\ th' = [th EXCEPT ![t].tmp = w,
                            ![t].pc = IF w.closed THEN "p_replace" ELSE "p_write"]
        /\ disk' = w
  /\ UNCHANGED <<heap, store, now, fetches, last, crashed>>

\* registry.py lines 48-50: json.dump writes the document to the temporary
\* file piece by piece; the closing bracket is the last piece.
PersistWrite(t) ==
  /\ At(t, "p_write")
  /\ \E n \in {Len(th[t].tmp.entries)} :
       IF n < Len(th[t].snap)
         THEN th' = [th EXCEPT ![t].tmp.entries = Append(@, th[t].snap[n + 1])]
         ELSE th' = [th EXCEPT ![t].tmp.closed = TRUE, ![t].pc = "p_replace"]
  /\ UNCHANGED <<heap, store, disk, now, fetches, last, crashed>>

\* registry.py line 51: Path(tmp.name).replace(self._path)
PersistReplace(t) ==
  /\ At(t, "p_replace")
  /\ disk' = th[t].tmp
  /\ th' = [th EXCEPT ![t].pc = th[t].k]
  /\ UNCHANGED <<heap, store, now, fetches, last, crashed>>

\* registry.py lines 65-67: record = self._records.get(channel_id)
UpdGet(t) ==
  /\ At(t, "upd_get")
  /\ \E o \in {Get(store, th[t].x)} :
       th' = [th EXCEPT ![t].o = o, ![t].ret = o,
                        ![t].pc = IF o = NoObj THEN "return" ELSE "upd_apply"]
  /\ UNCHANGED <<heap, store, disk, now, fetches, last, crashed>>

\* registry.py lines 68-85: the changes are written into the record
UpdApply(t) ==
  /\ At(t, "upd_apply")
  /\ heap' = [heap EXCEPT ![th[t].o] = ApplyChanges(@, th[t].changes, now)]
  /\ th' = [th EXCEPT ![t].pc = IF Updated(th[t].changes) THEN "p_dump" ELSE "return",
                      ![t].k = "return"]
  /\ UNCHANGED <<store, disk, now, fetches, last, crashed>>

\* refresh_service.py line 32, left operand: self._registry.resolve(identifier)
RfResolve(t) ==
  /\ At(t, "rf_resolve")
  /\ \E e \in {resolve(heap, store, th[t].x)} :
       th' = [th EXCEPT ![t].o = e, ![t].pc = IF e # NoObj THEN "rf_stale" ELSE "foc_resolve"]
  /\ UNCHANGED <<heap, store, disk, now, fetches, last, crashed>>

\* refresh_service.py lines 33-34 and 53-64: the staleness check and the
\* request parameters
RfStale(t) ==
  /\ At(t, "rf_stale")
  /\ th' = [th EXCEPT ![t].ret = th[t].o,
                      ![t].pc = IF (th[t].force \/ _is_stale(heap[th[t].o], now))
                                   /\ FetchParam(heap[th[t].o]) # "none"
                                  THEN "rf_fetch" ELSE "return"]
  /\ UNCHANGED <<heap, store, disk, now, fetches, last, crashed>>

\* refresh_service.py lines 36-38 and 66-75: the request and its answer
RfFetch(t, out) ==
  /\ At(t, "rf_fetch")
  /\ fetches < MaxFetches
  /\ (out.kind = "item" /\ FetchParam(heap[th[t].o]) = "id")
       => out.payload.id \in {None, heap[th[t].o].channel_id}
  /\ fetches' = fetches + 1
  /\ th' = [th EXCEPT ![t].fetched = 1, ![t].payload = out.payload,
                      ![t].raised = out.kind = "network_error",
                      ![t].ret = IF out.kind = "network_error" THEN NoObj ELSE th[t].o,
                      ![t].pc = IF out.kind = "item" THEN "rf_apply" ELSE "return"]
  /\ UNCHANGED <<heap, store, disk, now, last, crashed>>

\* refresh_service.py line 40: self._apply_payload(record, payload)
RfApply(t) ==
  /\ At(t, "rf_apply")
  /\ heap' = [heap EXCEPT ![th[t].o] = _apply_payload(@, th[t].payload, now)]
  /\ th' = [th EXCEPT ![t].pc = "rf_upsert"]
  /\ UNCHANGED <<store, disk, now, fetches, last, crashed>>

\* An upsert that stores the record under its key and leaves the file to the
\* memory write.
RfUpsertWithoutPersist(t) ==
  /\ At(t, "rf_upsert")
  /\ store' = DictSet(store, heap[th[t].o].channel_id, th[t].o)
  /\ th' = [th EXCEPT ![t].pc = "rf_memory", ![t].k = "rf_memory"]
  /\ UNCHANGED <<heap, disk, now, fetches, last, crashed>>

\* refresh_service.py line 41 and registry.py line 60: upsert(record)
RfUpsert(t) ==
  /\ At(t, "rf_upsert")
  /\ store' = DictSet(store, heap[th[t].o].channel_id, th[t].o)
  /\ th' = [th EXCEPT ![t].pc = "p_dump", ![t].k = "rf_memory"]
  /\ UNCHANGED <<heap, disk, now, fetches, last, crashed>>

\* refresh_service.py line 42: remember() reads the record by its key and
\* update_partial writes the notes into it
RfMemory(t) ==
  /\ At(t, "rf_memory")
  /\ \E found \in {Get(store, heap[th[t].o].channel_id)} :
       IF found = NoObj
         THEN /\ th' = [th EXCEPT ![t].pc = "return"]
              /\ UNCHANGED heap
         ELSE /\ heap' = [heap EXCEPT ![found] =
                            ApplyChanges(@, Changes(None, RememberNotes(@), FALSE, <<>>, None, None), now)]
              /\ th' = [th EXCEPT ![t].pc = "p_dump", ![t].k = "return"]
  /\ UNCHANGED <<store, disk, now, fetches, last, crashed>>

\* The call returns to its caller.
Return(t) ==
  /\ At(t, "return")
  /\ th' = [th EXCEPT ![t].pc = "idle", ![t].calls = @ + 1]
  /\ UNCHANGED <<heap, store, disk, now, fetches, last, crashed>>

\* The process is killed, at any point of any call.
Crash ==
  /\ ~crashed
  /\ \E t \in Threads : th[t].pc # "idle"
  /\ crashed' = TRUE
  /\ UNCHANGED <<heap, store, disk, now, fetches, last, th>>

Step(t) ==
  \/ FocResolve(t)
  \/ FocInsert(t)
  \/ PersistDump(t)
  \/ PersistWrite(t)
  \/ PersistReplace(t)
  \/ UpdGet(t)
  \/ UpdApply(t)
  \/ RfResolve(t)
  \/ RfStale(t)
  \/ \E out \in Outcomes : RfFetch(t, out)
  \/ RfApply(t)
  \/ RfUpsert(t)
  \/ RfMemory(t)
  \/ Return(t)

\* ------------------------------------------------------ specifications
\* The store as a first find_or_create_by_identifier("@a") leaves it.
Seeded == find_or_create_by_identifier(<<>>, <<>>, Persisted(<<>>, <<>>), HandleA, 0)

\* Callers on two threads, on a fresh store or on one that holds a record.
InitConc ==
  /\ \E f \in {Seeded, [hp |-> <<>>, st |-> <<>>, dk |-> Persisted(<<>>, <<>>)]} :
       /\ heap = f.hp
       /\ store = f.st
       /\ disk = f.dk
  /\ now = 0
  /\ fetches = 0
  /\ last = NoCall
  /\ th = [t \in Threads |-> Idle]
  /\ crashed = FALSE

OwnerChange == Changes(<<"O">>, None, FALSE, <<>>, None, None)

NextConc ==
  \E t \in Threads :
    \/ BeginFindOrCreate(t, HandleA)
    \/ \E k \in Keys(store) : BeginUpdatePartial(t, k, OwnerChange)
    \/ BeginRefresh(t, HandleA, FALSE)
    \/ Step(t)

SpecConc == InitConc /\ [][NextConc]_vars

\* One caller, and a process that may be killed at any step.
NextPersist ==
  \/ \E x \in {HandleA, NameB} : BeginFindOrCreate(1, x)
  \/ \E k \in Keys(store) : BeginUpdatePartial(1, k, OwnerChange)
  \/ \E force \in BOOLEAN : BeginRefresh(1, HandleA, force)
  \/ Step(1)
  \/ Crash

SpecPersist == InitConc /\ [][NextPersist]_vars

AliasChange == Changes(None, None, TRUE, <<UCx>>, None, None)

NotesChange == Changes(None, <<"N">>, FALSE, <<>>, None, None)

\* Calls on one thread, one after another, at one clock reading.
Next ==
  \/ \E x \in {HandleA, NameB, UCx} : FindOrCreate(x)
  \/ \E k \in Keys(store) \cup {UnknownId} : UpdatePartial(k, AliasChange)
  \/ UpsertNew(UCx, HandleA, <<"T">>)
  \/ \E x \in {HandleA, UCx}, force \in BOOLEAN : Refresh(x, force)

Spec == Init /\ [][Next]_vars

\* Refreshes of one channel as time passes.
NextRefresh ==
  \/ Tick
  \/ \E k \in Keys(store) : UpdatePartial(k, NotesChange)
  \/ \E force \in BOOLEAN : Refresh(HandleA, force)
  \/ \E force \in BOOLEAN : RefreshMemoryFailing(HandleA, force)

SpecRefresh == Init /\ [][NextRefresh]_vars

\* update_partial on one record as time passes.
NextManual ==
  \/ Tick
  \/ UpsertNew(UCx, HandleA, <<"T">>)
  \/ \E k \in Keys(store) \cup {UnknownId}, c \in ChangeSets \cup {BlankOwner, BlankNotes} :
        UpdatePartial(k, c)

SpecManual == Init /\ [][NextManual]_vars

\* Records created for identifiers of every shape as time passes.
NextCreate ==
  \/ Tick
  \/ \E x \in Identifiers \cup {NameBPadded, HandleAPadded} : FindOrCreate(x)

SpecCreate == Init /\ [][NextCreate]_vars

\* The calls of the manager, with the registry's and the refresh service's.
NextManager ==
  \/ \E x \in {HandleA, HandleAPadded} : AddChannel(x, <<"O">>, <<"N">>, AliasBatch)
  \/ \E x \in {NameBPadded, UrlAUpper}, aliases \in {<<>>, AliasBatch} :
        UpdateManualFields(x, <<"P">>, None, aliases)
  \/ FindOrCreate(NameB)
  \/ Refresh(HandleA, FALSE)

SpecManager == Init /\ [][NextManager]_vars

\* Lookups of a handle in every spelling, in a store of two records.
NextResolve ==
  \/ \E x \in {NameB, HandleAPadded} : FindOrCreate(x)
  \/ \E k \in Keys(store) : UpdatePartial(k, UrlAliasChange)
  \/ \E x \in {HandleA, HandleAPadded, BareAPadded, UrlA, UrlAUpper, NameBPadded} : Resolve(x)

SpecResolve == Init /\ [][NextResolve]_vars

\* Manual updates through the manager, of records the registry created and
\* the refresh service filled.
NextManualFields ==
  \/ FindOrCreate(NameB)
  \/ Refresh(HandleA, FALSE)
  \/ \E x \in {NameBPadded, UrlAUpper}, aliases \in {<<>>, AliasBatch} :
        UpdateManualFields(x, <<"P">>, None, aliases)

SpecManualFields == Init /\ [][NextManualFields]_vars

\* A channel whose uploads playlist is looked up and cached, as time passes.
NextPlaylist ==
  \/ Tick
  \/ FindOrCreate(UCx)
  \/ \E k \in Keys(store) : UpdatePartial(k, OwnerChange)
  \/ \E x \in {UCx, HandleA}, answer \in PlaylistAnswers : ResolveUploadsPlaylistId(x, answer)

SpecPlaylist == Init /\ [][NextPlaylist]_vars

\* A registry constructed on an existing file, then used.
InitLoad ==
  /\ heap = <<>>
  /\ store = <<>>
  /\ disk \in Files
  /\ now = 1
  /\ fetches = 0
  /\ last = NoCall
  /\ th = [t \in Threads |-> Idle]
  /\ crashed = FALSE

NextLoad ==
  \/ Construct
  \/ Constructed /\ \E x \in {HandleA, NameB, UCx} : FindOrCreate(x)
  \/ Constructed /\ \E k \in Keys(store) \cup {UnknownId}, c \in {OwnerChange, AliasChange} :
                       UpdatePartial(k, c)

SpecLoad == InitLoad /\ [][NextLoad]_vars

\* Handles as they come from identifiers and from the API.
NextHandle ==
  \/ \E x \in HandleSpellings : FindOrCreate(x)
  \/ \E payload \in HandlePayloads : RefreshAnswering(DoubleAtA, payload)
  \/ UpdatePartial(<<SyntheticPrefix, "@">>, OwnerChange)
  \/ UpdateManualFields(UrlDoubleAtA, None, None, << <<"@", "@", "b">> >>)
  \/ AddChannel(DoubleAtA, <<"O">>, None, <<>>)

SpecHandle == Init /\ [][NextHandle]_vars

\* normalize_handle on every value, then on its result.
InitNormalize ==
  /\ heap = <<>>
  /\ store = <<>>
  /\ disk = Persisted(<<>>, <<>>)
  /\ now = 0
  /\ fetches = 0
  /\ \E value \in HandleInputs : last = [NoCall EXCEPT !.op = "value", !.x = value]
  /\ th = [t \in Threads |-> Idle]
  /\ crashed = FALSE

NextNormalize == NormalizeHandleOnce \/ NormalizeHandleAgain

SpecNormalize == InitNormalize /\ [][NextNormalize]_vars

\* dedupe_aliases on every list, then on its result.
InitDedupe ==
  /\ heap = <<>>
  /\ store = <<>>
  /\ disk = Persisted(<<>>, <<>>)
  /\ now = 0
  /\ fetches = 0
  /\ \E aliases \in AliasLists : last = [NoCall EXCEPT !.op = "aliases", !.x = aliases]
  /\ th = [t \in Threads |-> Idle]
  /\ crashed = FALSE

NextDedupe == DedupeAliasesOnce \/ DedupeAliasesAgain

SpecDedupe == InitDedupe /\ [][NextDedupe]_vars

\* A record reached by several identifiers, then changed by hand and by a
\* refresh.
NextAlias ==
  \/ \E x \in {HandleA, OwnerName, NameBPadded} : FindOrCreate(x)
  \/ \E k \in Keys(store), c \in {OwnerChange, OwnerRename} : UpdatePartial(k, c)
  \/ \E x \in {HandleA, OwnerName} : UpdateManualFields(x, None, <<"N">>, <<>>)
  \/ \E x \in {HandleA, OwnerName} : RefreshAnswering(x, PRenamed)
  \/ \E x \in {HandleA, OwnerName, NameBPadded} : Resolve(x)

SpecAlias == Init /\ [][NextAlias]_vars

\* ------------------------------------------- tools/youtube/client.py
\* execute_request, one step per attempt. last holds the locals of the call:
\* attempt counts the iterations of the for loop begun so far, history lists
\* what request.execute did at each of them.
Retries == (0 - 1)..MaxRetries

ExecuteOutcomes ==
  {"response", "TimeoutError", "EADDRNOTAVAIL", "ECONNREFUSED", "HttpError404",
   "HttpError500"}

OSErrors == {"EADDRNOTAVAIL", "ECONNREFUSED"}

Max0(r) == IF r > 0 THEN r ELSE 0

Running == last.op = "execute_request" /\ last.pc \in {"for", "execute"}

\* client.py lines 44-45
ExecuteRequest(r) ==
  /\ ~Running
  /\ last' = [op |-> "execute_request", retries |-> r, attempts |-> Max0(r) + 1,
              attempt |-> 0, pc |-> "for", last_exc |-> "None", error |-> "None",
              history |-> <<>>]
  /\ UNCHANGED <<heap, store, disk, now, fetches, th, crashed>>

\* client.py line 46, and lines 76-78 when range(1, attempts + 1) is used up
ForAttempt ==
  /\ Running
  /\ last.pc = "for"
  /\ last' = IF last.attempt < last.attempts
               THEN [last EXCEPT !.attempt = @ + 1, !.pc = "execute"]
               ELSE [last EXCEPT !.pc = "raised",
                       !.error = IF last.last_exc # "None" THEN last.last_exc
                                 ELSE "RuntimeError"]
  /\ UNCHANGED <<heap, store, disk, now, fetches, th, crashed>>

\* Retries after every OSError, whatever its errno.
AfterExecuteRetryingAnyOSError(c, outcome) ==
  LET d == [c EXCEPT !.history = Append(@, outcome)]
  IN IF outcome = "response" THEN [d EXCEPT !.pc = "returned"]
     ELSE IF outcome = "TimeoutError" \/ outcome \in OSErrors
       THEN IF c.attempt < c.attempts
              THEN [d EXCEPT !.last_exc = outcome, !.pc = "for"]
              ELSE [d EXCEPT !.last_exc = outcome, !.pc = "raised", !.error = outcome]
     ELSE [d EXCEPT !.pc = "raised", !.error = outcome]

\* client.py lines 47-75: what the try statement does with the outcome of
\* request.execute(num_retries=0)
AfterExecute(c, outcome) ==
  LET d == [c EXCEPT !.history = Append(@, outcome)]
  IN IF outcome = "response" THEN [d EXCEPT !.pc = "returned"]
     ELSE IF outcome = "TimeoutError"
       THEN IF c.attempt < c.attempts
              THEN [d EXCEPT !.last_exc = outcome, !.pc = "for"]
              ELSE [d EXCEPT !.last_exc = outcome, !.pc = "raised", !.error = outcome]
     ELSE IF outcome \in OSErrors
       THEN IF outcome = "EADDRNOTAVAIL" /\ c.attempt < c.attempts
              THEN [d EXCEPT !.last_exc = outcome, !.pc = "for"]
              ELSE [d EXCEPT !.last_exc = outcome, !.pc = "raised", !.error = outcome]
     ELSE [d EXCEPT !.pc = "raised", !.error = outcome]

\* client.py line 48
Execute(outcome) ==
  /\ Running
  /\ last.pc = "execute"
  /\ last' = AfterExecute(last, outcome)
  /\ UNCHANGED <<heap, store, disk, now, fetches, th, crashed>>

NextRequest ==
  \/ \E r \in Retries : ExecuteRequest(r)
  \/ ForAttempt
  \/ \E outcome \in ExecuteOutcomes : Execute(outcome)

\* The loop is sequential code and request.execute comes back, with a
\* response or an exception: a call that can take a step takes it.
SpecRequest ==
  /\ Init
  /\ [][NextRequest]_vars
  /\ WF_vars(ForAttempt)
  /\ WF_vars(\E outcome \in ExecuteOutcomes : Execute(outcome))

\* ------------------------------------------------------------ properties
\* C1: a refresh of a record that existed before the call leaves the
\* record's owner and notes as they were when the call began.
C1_RefreshKeepsOwnerAndNotes ==
  (last.op = "refresh" /\ last.existed) =>
    /\ heap[last.target].owner = last.mid[1].owner
    /\ heap[last.target].notes = last.mid[1].notes

\* C2: a refresh without force that reaches a record refreshed less than the
\* TTL ago, or the record that a successful or fresh refresh has just
\* returned, makes no request and no store write and returns the record
\* with every field, last_refreshed_at included, as it was.
C2_FreshRecordIsNotFetched ==
  (/\ last.op = "refresh"
   /\ ~last.force
   /\ \/ /\ last.mid[1].last_refreshed_at # NoTime
         /\ last.at < last.mid[1].last_refreshed_at + TtlHours
      \/ /\ last.prev_kind \in {"applied", "fresh"}
         /\ last.prev_target = last.target)
    => /\ last.fetched = 0
       /\ last.writes = 0
       /\ ~last.raised
       /\ last.ret = last.target
       /\ heap[last.ret] = last.mid[1]

\* A refresh without force finds its record fresh in the last hour of the
\* TTL window, after time has passed since the record was refreshed.
C2_Witness ==
  /\ last.op = "refresh"
  /\ ~last.force
  /\ last.kind = "fresh"
  /\ last.at > last.mid[1].last_refreshed_at
  /\ last.at = last.mid[1].last_refreshed_at + TtlHours - 1

\* C3: a refresh whose request raises, answers with no channel or answers
\* with an item that carries neither snippet nor statistics returns its
\* record unchanged, raises nothing and writes nothing.
C3_FailedFetchChangesNothing ==
  (/\ last.op = "refresh"
   /\ \/ last.answer \in {"network_error", "http_error", "no_items", "empty_item"}
      \/ last.answer = "item" /\ last.payload = NoPayload)
    => /\ ~last.raised
       /\ last.ret = last.target
       /\ heap[last.target] = last.mid[1]
       /\ last.writes = 0

\* C4: every key of the store is the channel_id of the record it maps to,
\* and no two keys map to records with the same channel_id.
C4_KeysAreChannelIds ==
  /\ \A i \in 1..Len(store) : heap[store[i].o].channel_id = store[i].k
  /\ \A i, j \in 1..Len(store) :
       i # j => heap[store[i].o].channel_id # heap[store[j].o].channel_id

\* C5: resolve of a canonical (UC-prefixed) channel_id that a record of the
\* store carries returns that record.
C5_CanonicalIdResolvesToItsRecord ==
  \A i \in 1..Len(store) :
    StartsWithUC(heap[store[i].o].channel_id)
      => resolve(heap, store, heap[store[i].o].channel_id) = store[i].o

\* C6: the store file is at every instant a complete document, it is the
\* file that _persist found until the replace, and whenever it changes it
\* becomes the complete document of the snapshot being persisted.
C6_PersistIsAtomic ==
  /\ [](/\ disk.closed
        /\ \A t \in Threads :
             th[t].pc \in {"p_write", "p_replace"} => disk = th[t].old)
  /\ [][disk' # disk => \E t \in Threads : /\ th[t].pc = "p_replace"
                                           /\ disk' = Document(th[t].snap)]_vars

\* The process is killed while _persist has written part of a new document
\* over a store file that holds a record.
C6_Witness ==
  /\ crashed
  /\ \E t \in Threads :
       /\ th[t].pc = "p_write"
       /\ th[t].tmp.entries # <<>>
       /\ ~th[t].tmp.closed
       /\ disk.entries # <<>>
       /\ disk # Document(th[t].snap)

\* C7: loading the store file gives the in-memory records: the same keys,
\* and under each key a record with the same field values.
C7_FileLoadsToMemory ==
  /\ Keys(_load(disk).st) = Keys(store)
  /\ \A k \in Keys(store) :
       _load(disk).hp[Get(_load(disk).st, k)] = heap[Get(store, k)]

\* C8: two calls that have resolved or created the record of the same
\* identifier and have returned hold the same record, the one the store
\* resolves the identifier to.
C8_ConcurrentCreateGivesOneRecord ==
  \A t1, t2 \in Threads :
    (/\ t1 # t2
     /\ th[t1].op \in {"find_or_create", "refresh"}
     /\ th[t2].op \in {"find_or_create", "refresh"}
     /\ th[t1].x = th[t2].x
     /\ th[t1].pc = "idle" /\ th[t1].calls > 0
     /\ th[t2].pc = "idle" /\ th[t2].calls > 0)
      => /\ th[t1].o = th[t2].o
         /\ resolve(heap, store, th[t1].x) = th[t1].o

\* C9: two refreshes without force that are at work at once on the same
\* record, neither having reached its return, make at most one request
\* between them.
C9_ConcurrentRefreshFetchesOnce ==
  \A t1, t2 \in Threads :
    (/\ t1 # t2
     /\ th[t1].op = "refresh" /\ th[t2].op = "refresh"
     /\ ~th[t1].force /\ ~th[t2].force
     /\ th[t1].pc \notin {"idle", "return"}
     /\ th[t2].pc \notin {"idle", "return"}
     /\ th[t1].o # NoObj
     /\ th[t1].o = th[t2].o)
      => th[t1].fetched + th[t2].fetched <= 1

\* C10: once every call has returned, the store file is the document of the
\* in-memory records.
C10_FileHoldsEveryUpdate ==
  (\A t \in Threads : th[t].pc = "idle") => disk = Persisted(heap, store)

\* C11: no record's aliases hold an empty or whitespace-only entry, and no
\* two entries of one list are equal after trimming and lowercasing.
C11_AliasesAreDeduped ==
  \A o \in DOMAIN heap :
    /\ \A i \in 1..Len(heap[o].aliases) :
         heap[o].aliases[i] # None /\ Strip(heap[o].aliases[i]) # <<>>
    /\ \A i, j \in 1..Len(heap[o].aliases) :
         i # j => Lower(Strip(heap[o].aliases[i])) # Lower(Strip(heap[o].aliases[j]))

\* update_manual_fields has merged a batch with case variants, blanks and
\* None into the aliases of an existing record.
C11_Witness ==
  /\ last.op = "update_manual_fields"
  /\ last.existed
  /\ last.changes.aliases = AliasBatch
  /\ last.mid[1].aliases # <<>>
  /\ \E i \in 1..Len(heap[last.target].aliases) : heap[last.target].aliases[i] = <<"A">>

\* C12: update_partial on an existing record changes no field but owner,
\* notes, aliases and updated_at, whatever else the changes name, and the
\* owner and notes it is given are the record's owner and notes afterwards.
C12_UpdatePartialTouchesManualFieldsOnly ==
  (last.op = "update_partial" /\ last.existed) =>
    /\ heap[last.target] =
         [last.mid[1] EXCEPT !.owner = heap[last.target].owner,
                             !.notes = heap[last.target].notes,
                             !.aliases = heap[last.target].aliases,
                             !.updated_at = heap[last.target].updated_at]
    /\ last.changes.owner # None => heap[last.target].owner = last.changes.owner
    /\ last.changes.notes # None => heap[last.target].notes = last.changes.notes

\* update_partial(id, title="New", owner="X") on a record titled "T".
C12_Witness ==
  /\ last.op = "update_partial"
  /\ last.existed
  /\ last.changes.title = <<"N", "e", "w">>
  /\ last.changes.owner = <<"X">>
  /\ heap[last.target].title = <<"T">>
  /\ heap[last.target].owner = <<"X">>
  /\ last.mid[1].owner # <<"X">>

\* C13: in update_partial on an existing record an owner or notes of None
\* leaves the field as it was and an empty string becomes the field's
\* value; with every editable value None and no aliases nothing changes
\* and nothing is persisted; a call that changes the record sets updated_at
\* to the time of the call and persists the store.
C13_NoneKeepsBlankClears ==
  (last.op = "update_partial" /\ last.existed) =>
    /\ last.changes.owner = None => heap[last.target].owner = last.mid[1].owner
    /\ last.changes.notes = None => heap[last.target].notes = last.mid[1].notes
    /\ last.changes.owner = <<>> => heap[last.target].owner = <<>>
    /\ last.changes.notes = <<>> => heap[last.target].notes = <<>>
    /\ (last.changes.owner = None /\ last.changes.notes = None /\ ~last.changes.has_aliases)
         => heap[last.target] = last.mid[1] /\ last.writes = 0
    /\ heap[last.target] # last.mid[1]
         => /\ heap[last.target].updated_at = last.at
            /\ last.writes = 1
            /\ disk = Persisted(heap, store)

\* owner="" has cleared an owner that was set, at a later time than the
\* record's previous update.
C13_Witness ==
  /\ last.op = "update_partial"
  /\ last.existed
  /\ last.changes = BlankOwner
  /\ Truthy(last.mid[1].owner)
  /\ heap[last.target].owner = <<>>
  /\ heap[last.target].updated_at > last.mid[1].updated_at

\* C14: an update_partial whose channel_id is not a key of the store
\* returns None, raises nothing and leaves the records, the keys and the
\* store file as they were.
C14_UnknownIdChangesNothing ==
  [][(last'.op = "update_partial" /\ last'.x \notin Keys(store))
       => /\ last'.ret = NoObj
          /\ ~last'.raised
          /\ heap' = heap
          /\ store' = store
          /\ disk' = disk]_vars

\* update_partial with an owner has returned None on a store that holds a record.
C14_Witness ==
  /\ last.op = "update_partial"
  /\ last.ret = NoObj
  /\ last.x \notin Keys(store)
  /\ last.changes.owner # None
  /\ store # <<>>
\* The spellings of a handle "@h": "@h", "h" and the URL of "@h", in any
\* letter case and with whitespace around them.
IsSpellingOf(x, handle) ==
  Lower(Strip(x)) \in {Lower(handle), LStripSet(Lower(handle), {"@"}),
                       <<UrlPrefix, "/">> \o Lower(handle)}

\* No other record of the store shares a search token with the record o.
SharesNoToken(o) ==
  \A p \in Objs(store) \ {o} : search_tokens(heap[p]) \cap search_tokens(heap[o]) = {}

\* No other record of the store holds a token of the lookup of x.
HoldsNoTokenOf(o, x) ==
  \A p \in Objs(store) \ {o} : search_tokens(heap[p]) \cap _expand_identifier(x) = {}

\* C15 as the spec states it: if the store holds a record R with handle "@h"
\* and no other record shares a search token with R, then resolve of "@h", of
\* "h" and of the URL of "@h", in any letter case and with whitespace around
\* it, returns R.
C15_HandleSpellingsResolve ==
  last.op = "resolve" =>
    \A o \in Objs(store) :
      (Truthy(heap[o].handle) /\ IsSpellingOf(last.x, heap[o].handle) /\ SharesNoToken(o))
        => last.ret = o

\* C15 amended: the same, for a record R with handle "@h" when no other
\* record holds one of the tokens the lookup expands to (the URL itself is
\* such a token, and no token of R).
C15_HandleSpellingsResolveUnlessTaken ==
  last.op = "resolve" =>
    \A o \in Objs(store) :
      (Truthy(heap[o].handle) /\ IsSpellingOf(last.x, heap[o].handle)
         /\ SharesNoToken(o) /\ HoldsNoTokenOf(o, last.x))
        => last.ret = o

\* The URL of the handle in upper case, followed by a newline, resolves to the
\* second of two records, the one with the handle.
C15_Witness ==
  /\ last.op = "resolve"
  /\ last.x = UrlAUpper
  /\ Len(store) = 2
  /\ last.ret = store[2].o
  /\ Truthy(heap[last.ret].handle)
  /\ IsSpellingOf(last.x, heap[last.ret].handle)
  /\ SharesNoToken(last.ret)
  /\ HoldsNoTokenOf(last.ret, last.x)

\* The record a store loaded from the file resolves x to, as a sequence of
\* at most one record.
ReloadedResolve(x) ==
  LET loaded == _load(disk)
      o == resolve(loaded.hp, loaded.st, x)
  IN IF o = NoObj THEN <<>> ELSE <<loaded.hp[o]>>

\* C16: for an identifier x that does not resolve and whose trimmed form does
\* not start with "UC", find_or_create_by_identifier(x) inserts and persists a
\* record whose channel_id is "synthetic::" followed by the lowercased trimmed
\* x, and a new store loaded from the file resolves x to a record with that
\* channel_id.
C16_PlaceholderSurvivesReload ==
  (last.op = "find_or_create" /\ ~last.existed /\ ~StartsWithUC(Strip(last.x))) =>
    /\ heap[last.ret].channel_id = <<SyntheticPrefix>> \o Lower(Strip(last.x))
    /\ ~StartsWithUC(heap[last.ret].channel_id)
    /\ last.ret \in Objs(store)
    /\ disk = Persisted(heap, store)
    /\ ReloadedResolve(last.x) # <<>>
    /\ ReloadedResolve(last.x)[1].channel_id = heap[last.ret].channel_id

\* The aliases hold the entry a, compared trimmed and without letter case.
HoldsAlias(aliases, a) ==
  \E i \in 1..Len(aliases) : Lower(Strip(aliases[i])) = Lower(Strip(a))

\* The entries of a caller's aliases that are text other than whitespace.
GivenAliases(aliases) ==
  {aliases[i] : i \in {j \in 1..Len(aliases) : Truthy(aliases[j]) /\ Strip(aliases[j]) # <<>>}}

\* The record add_channel returns has the owner and the aliases it was given.
AddChannelKeepsOwnerAndAliases ==
  /\ last.ret # NoObj
  /\ last.force
  /\ last.fetched <= 1
  /\ heap[last.ret].owner = last.changes.owner
  /\ \A a \in GivenAliases(last.changes.aliases) : HoldsAlias(heap[last.ret].aliases, a)

\* C17: add_channel(identifier, owner=o, notes=n, aliases=A) with o and n not
\* None resolves or creates the record, applies the manual fields, refreshes
\* it once with force=True and returns a record whose owner is o, whose notes
\* is n and whose aliases hold every non-empty entry of A without regard to
\* letter case.
C17_AddChannelReturnsManualFields ==
  (last.op = "add_channel" /\ last.changes.owner # None /\ last.changes.notes # None) =>
    /\ ~last.raised
    /\ AddChannelKeepsOwnerAndAliases
    /\ heap[last.ret].notes = last.changes.notes

\* The record after differs from the record before in owner, notes, aliases
\* and updated_at at most.
OnlyManualFieldsDiffer(before, after) ==
  after = [before EXCEPT !.owner = after.owner, !.notes = after.notes,
                         !.aliases = after.aliases, !.updated_at = after.updated_at]

\* C18: update_manual_fields never fetches and never creates a record; for an
\* identifier that does not resolve it returns None and leaves the store and
\* the file as they were; for one that resolves to R it changes no record but
\* R, and of R only owner, notes, aliases and updated_at.
C18_ManualUpdateNeitherFetchesNorCreates ==
  [][last'.op = "update_manual_fields" =>
       /\ fetches' = fetches
       /\ last'.fetched = 0
       /\ ~last'.raised
       /\ store' = store
       /\ DOMAIN heap' = DOMAIN heap
       /\ IF resolve(heap, store, last'.x) = NoObj
            THEN last'.ret = NoObj /\ heap' = heap /\ disk' = disk
            ELSE /\ last'.ret = resolve(heap, store, last'.x)
                 /\ \A o \in DOMAIN heap :
                      IF o = last'.ret
                        THEN OnlyManualFieldsDiffer(heap[o], heap'[o])
                        ELSE heap'[o] = heap[o]]_vars

\* The URL of the handle in upper case reaches the record of the handle,
\* which takes the owner and new aliases and keeps its title.
C18_Witness ==
  /\ last.op = "update_manual_fields"
  /\ last.x = UrlAUpper
  /\ last.ret # NoObj
  /\ Len(store) = 2
  /\ last.mid[1].owner # heap[last.ret].owner
  /\ heap[last.ret].owner = last.changes.owner
  /\ Len(heap[last.ret].aliases) > Len(last.mid[1].aliases)
  /\ heap[last.ret].title = last.mid[1].title
  /\ heap[last.ret].title # None
  /\ disk = Persisted(heap, store)

\* The file holds the entry e.
FileHolds(e) == disk.closed /\ \E i \in 1..Len(disk.entries) : disk.entries[i] = e

\* C19: when the memory write of a refresh fails (remember raises, or reports
\* the failure), refresh still returns the updated record, the metadata it
\* fetched stays in the file, and no exception leaves refresh.
C19_MemoryFailureKeepsRefresh ==
  (last.op = "refresh" /\ last.memory \in {"raises", "fails"}) =>
    /\ ~last.raised
    /\ last.ret # NoObj
    /\ last.ret = last.target
    /\ last.ret \in Objs(store)
    /\ heap[last.ret].last_refreshed_at = last.at
    /\ last.payload.title # None => heap[last.ret].title = last.payload.title
    /\ OnlyManualFieldsDiffer(_apply_payload(last.mid[1], last.payload, last.at),
                              heap[last.ret])
    /\ FileHolds(model_dump(_apply_payload(last.mid[1], last.payload, last.at)))

\* A record refreshed before is refreshed again, and remember reports that it
\* failed.
C19_Witness ==
  /\ last.op = "refresh"
  /\ last.memory = "fails"
  /\ last.existed
  /\ last.mid[1].last_refreshed_at # NoTime
  /\ last.mid[1].last_refreshed_at < last.at
  /\ ~last.raised
  /\ heap[last.ret].last_refreshed_at = last.at
  /\ FileHolds(model_dump(_apply_payload(last.mid[1], last.payload, last.at)))

\* The step is a refresh that fetched an item and applied it to the record o.
AppliesPayloadTo(o) ==
  last'.op = "refresh" /\ last'.kind = "applied" /\ last'.target = o /\ last'.fetched = 1

C21_PersistedChangeBumpsUpdatedAt ==
  /\ [](\A o \in Objs(store) : heap[o].updated_at >= heap[o].created_at)
  /\ [][\A o \in (DOMAIN heap) \cap Objs(store') :
          (heap'[o] # heap[o] /\ disk' # disk /\ disk'.closed
             /\ \E i \in 1..Len(disk'.entries) : disk'.entries[i] = model_dump(heap'[o]))
            => heap'[o].updated_at = now]_vars

\* The channel ids of the entries of a file that are valid records.
RECURSIVE ValidIds(_)
ValidIds(entries) ==
  IF entries = <<>> THEN {}
  ELSE (IF ValidEntry(Head(entries)) THEN {Head(entries).channel_id} ELSE {})
         \cup ValidIds(Tail(entries))

\* C22: constructing a ChannelRegistry on a path whose file is not valid JSON,
\* or holds entries that are not valid records, never raises: a malformed
\* file gives an empty store, the invalid entries are skipped, and a later
\* call that changes the store succeeds and leaves a valid store file.
C22_MalformedFileNeverRaises ==
  /\ last.op = "__init__" =>
       /\ ~last.raised
       /\ ~disk.closed => store = <<>>
       /\ disk.closed => Keys(store) = ValidIds(disk.entries)
  /\ (last.op \in {"find_or_create", "update_partial"} /\ last.writes > 0) =>
       ~last.raised /\ disk = Persisted(heap, store)

\* The text begins with one "@" and no second one.
SingleAt(handle) ==
  /\ handle # <<>>
  /\ Head(handle) = "@"
  /\ Len(handle) >= 2 => handle[2] # "@"

\* C23: the handle of every record that find_or_create_by_identifier created
\* and that only refresh, update_partial, add_channel and
\* update_manual_fields changed since is None or begins with exactly one "@".
C23_HandleHasOneAt ==
  \A o \in DOMAIN heap : heap[o].handle = None \/ SingleAt(heap[o].handle)

\* A refresh whose item carries the custom URL "@@x" leaves the handle "@x".
C23_Witness ==
  /\ last.op = "refresh"
  /\ last.kind = "applied"
  /\ last.payload.customUrl = <<"@", "@", "x">>
  /\ heap[last.ret].handle = <<"@", "x">>
  /\ \E o \in DOMAIN heap : heap[o].handle = <<"@">>

\* C24: for every h (None, empty, whitespace only, or a text with any number
\* of leading "@" and whitespace around it)
\* normalize_handle(normalize_handle(h)) = normalize_handle(h).
C24_NormalizeHandleIsIdempotent ==
  last.op = "normalize_handle twice" => last.mid[2] = last.mid[1]

\* "@@a": both applications give "@a".
C24_Witness ==
  /\ last.op = "normalize_handle twice"
  /\ last.x = <<"@", "@", "a">>
  /\ last.mid = << <<"@", "a">>, <<"@", "a">> >>

\* The entries of a list that are text other than whitespace, by position.
Surviving(aliases) ==
  {i \in 1..Len(aliases) : Truthy(aliases[i]) /\ Strip(aliases[i]) # <<>>}

\* The position at which the key of entry i occurs first.
FirstSeen(aliases, i) ==
  CHOOSE j \in Surviving(aliases) :
    /\ Lower(Strip(aliases[j])) = Lower(Strip(aliases[i]))
    /\ \A k \in Surviving(aliases) :
         Lower(Strip(aliases[k])) = Lower(Strip(aliases[i])) => j <= k

\* result is what the spec says dedupe_aliases gives for aliases.
IsDeduped(aliases, result) ==
  LET firsts == {FirstSeen(aliases, i) : i \in Surviving(aliases)}
  IN /\ Len(result) = Cardinality(firsts)
     /\ \A n \in 1..Len(result) :
          \E j \in firsts :
            /\ result[n] = Strip(aliases[j])
            /\ Cardinality({k \in firsts : k < j}) = n - 1

\* C25: for every list of optional strings dedupe_aliases returns the trimmed
\* non-empty entries, one per lowercased trimmed key, namely the entry seen
\* first in its own casing, in the order of first occurrence; and
\* dedupe_aliases of the result is the result.
C25_DedupeKeepsFirstSeen ==
  /\ last.op \in {"dedupe_aliases", "dedupe_aliases twice"} => IsDeduped(last.x, last.mid[1])
  /\ last.op = "dedupe_aliases twice" => last.mid[2] = last.mid[1]

\* " A ", "a", "A" and nothing else that survives: the one entry "A".
C25_Witness ==
  /\ last.op = "dedupe_aliases twice"
  /\ last.x = << <<" ", "A", " ">>, <<"a">>, <<"A">> >>
  /\ last.mid = << << <<"A">> >>, << <<"A">> >> >>

\* The latest call reached a record through the identifier last.x.
ReachedRecord ==
  /\ last.op \in {"find_or_create", "add_channel", "update_manual_fields", "refresh"}
  /\ ~last.raised
  /\ last.ret # NoObj

\* C26: once an identifier x has reached a record R through
\* find_or_create_by_identifier, add_channel, update_manual_fields or refresh,
\* every later resolve(x) returns R, whatever refreshes and manual updates of
\* R come between: x stays among the aliases of R.  Stated for the first
\* change of R that follows.
C26_ReachingIdentifierStaysAlias ==
  [][(/\ ReachedRecord
      /\ last'.op \in {"update_partial", "update_manual_fields", "refresh"}
      /\ ~last'.raised
      /\ last'.target = last.ret)
       => /\ resolve(heap', store', last.x) = last.ret
          /\ HoldsAlias(heap'[last.ret].aliases, last.x)]_vars

\* The stage of refresh a thread c is in: 1 resolve (with the creation of a
\* shell record and its _persist), 2 stale-check, 3 fetch, 4 apply, 5 persist
\* (upsert and its _persist), 6 memory-write (with the _persist of its
\* update_partial), 7 done.
PersistPcs == {"p_dump", "p_write", "p_replace"}

Stage(c) ==
  CASE c.pc \in {"rf_resolve", "foc_resolve", "foc_insert"} -> 1
    [] c.pc \in PersistPcs /\ c.k = "rf_stale" -> 1
    [] c.pc = "rf_stale" -> 2
    [] c.pc = "rf_fetch" -> 3
    [] c.pc = "rf_apply" -> 4
    [] c.pc = "rf_upsert" -> 5
    [] c.pc \in PersistPcs /\ c.k = "rf_memory" -> 5
    [] c.pc = "rf_memory" -> 6
    [] c.pc \in PersistPcs /\ c.k = "return" -> 6
    [] OTHER -> 7

C28_FetchStageIffForcedOrStale ==
  last.op = "refresh" =>
    /\ last.kind # "fresh" <=>
          \/ last.force
          \/ last.mid[1].last_refreshed_at = NoTime
          \/ last.at >= last.mid[1].last_refreshed_at + TtlHours
    /\ last.kind \notin {"fresh", "no_param"} <=> last.fetched = 1
    /\ last.kind = "fresh" =>
          /\ last.fetched = 0
          /\ last.writes = 0
          /\ ~last.raised
          /\ last.ret = last.target
          /\ heap[last.ret] = last.mid[1]

\* An unforced refresh at the boundary instant made the external call.
C28_Witness ==
  /\ last.op = "refresh"
  /\ ~last.force
  /\ last.mid[1].last_refreshed_at # NoTime
  /\ last.at = last.mid[1].last_refreshed_at + TtlHours
  /\ last.fetched = 1

\* C29: find_or_create_by_identifier is idempotent: for every identifier x,
\* the empty and the whitespace-only ones included, a second call with x
\* returns the record the first call found or created, adds no record to
\* the store and leaves the fields of that record, created_at included, as
\* they were.
C29_FindOrCreateIsIdempotent ==
  [][(/\ last.op = "find_or_create"
      /\ last'.op = "find_or_create"
      /\ last'.x = last.x
      /\ last.ret \in DOMAIN heap)
       => /\ last'.existed
          /\ last'.ret = last.ret
          /\ Len(store') = Len(store)
          /\ heap'[last'.ret] = heap[last.ret]]_vars

Retried(c) == SubSeq(c.history, 1, Len(c.history) - 1)

\* C30: execute_request(request, retries=r) always terminates and calls
\* request.execute at most max(0, r) + 1 times: only a TimeoutError or an
\* OSError with errno EADDRNOTAVAIL is followed by another attempt, that
\* error is raised again once the attempts are used up, and every other
\* error, an HTTP not-found response included, is raised by the attempt
\* that met it.
C30_ExecuteRequestRetriesAreBounded ==
  /\ [](last.op = "execute_request" =>
          /\ Len(last.history) <= Max0(last.retries) + 1
          /\ Len(last.history) \in {last.attempt, last.attempt - 1}
          /\ last.pc # "execute" => Len(last.history) = last.attempt
          /\ last.pc = "for" => \A i \in 1..Len(last.history) :
                last.history[i] \in {"TimeoutError", "EADDRNOTAVAIL"}
          /\ last.pc \in {"returned", "raised"} =>
                /\ last.history # <<>>
                /\ \A i \in 1..Len(Retried(last)) :
                      Retried(last)[i] \in {"TimeoutError", "EADDRNOTAVAIL"}
          /\ last.pc = "returned" => last.history[Len(last.history)] = "response"
          /\ last.pc = "raised" =>
                /\ last.error = last.history[Len(last.history)]
                /\ last.error # "response"
                /\ last.error \in {"TimeoutError", "EADDRNOTAVAIL"} =>
                      Len(last.history) = Max0(last.retries) + 1
                /\ (Len(last.history) = 1 /\ last.retries > 0) =>
                      last.error \notin {"TimeoutError", "EADDRNOTAVAIL"})
  /\ Running ~> (last.op = "execute_request" /\ last.pc \in {"returned", "raised"})

\* A call with retries >= 1 used every attempt on transient errors and
\* raised the last of them.
C30_Witness ==
  /\ last.op = "execute_request"
  /\ last.retries >= 1
  /\ last.pc = "raised"
  /\ Len(last.history) = last.retries + 1
  /\ last.error = "EADDRNOTAVAIL"
  /\ last.history[1] = "TimeoutError"

====
